---- MODULE Spec2Model ----
(***************************************************************************)
(* Asynchronous job execution, live log streaming and the admission guards *)
(* of the CloudLaunch API (src/api/jobs.py, src/api/middleware.py,         *)
(* src/api/app.py).                                                        *)
(*                                                                         *)
(* The module holds several specifications over one set of variables:      *)
(*   SpecConc   - threads calling check_concurrency /                      *)
(*                release_concurrency_slot, the lock modelled explicitly   *)
(*   SpecBudget - calls of check_provision_budget / release_provision_slot *)
(*   SpecWS     - one launched job, its runner thread and the WebSocket    *)
(*                sessions streaming its log                               *)
(*   Spec       - the request handlers, the job runners and the            *)
(*                auto-destroy timers                                      *)
(* A specification leaves the variables it does not use at their initial   *)
(* values.                                                                 *)
(***************************************************************************)
EXTENDS Integers, Sequences, FiniteSets, TLC

\* ------------------------------------------------------------------ bounds
NThreads == 2          \* request threads of SpecConc / SpecBudget
NIps == 2              \* distinct caller IPs
MaxBudgetCalls == 6    \* budget calls recorded in budget_calls (SpecBudget)
MaxJobs == 2           \* jobs launched in Spec
MaxLines == 1          \* lines one provider call emits in Spec
MaxLinesWS == 3        \* lines the provider call emits in SpecWS
NSessions == 2         \* WebSocket sessions in SpecWS
MaxPings == 1          \* heartbeat frames recorded per session
MaxRateCalls == 4      \* consume() calls recorded in rate_calls (SpecBucket)
MaxReadCalls == 4      \* consume() calls recorded in read_calls (SpecBucket)
MaxTime == 45          \* seconds of monotonic time explored (SpecBucket)

Threads == 1..NThreads
IPs == 1..NIps

\* values of MAX_CONCURRENT_JOBS and MAX_JOBS_PER_IP explored (the
\* defaults are 1 and 1)
ConcurrentLimits == {1, 2}
PerIpLimits == {1, 2}
\* values of MAX_TOTAL_PROVISIONS explored (0 disables the cap, default 3)
ProvisionLimits == {0, 1, 2}
\* values of AUTO_DESTROY_MINUTES explored (0 disables the timer, default 30)
AutoDestroyChoices == {0, 30}
\* values of RATE_LIMIT_WRITE_RPM explored (default 4)
RateChoices == {2, 4}
\* values of API_KEY_MAX_USES explored (0 = unlimited, the default)
KeyUseLimits == {0, 1, 2}
\* how far time.monotonic() advances between two steps, in seconds
ElapseChoices == {15, 30}

Max0(x) == IF x > 0 THEN x ELSE 0

\* --------------------------------------------------------------- variables
VARIABLES
    \* configuration, read once from the environment at import time
    MAX_CONCURRENT,     \* _MAX_CONCURRENT
    MAX_PER_IP,         \* _MAX_PER_IP
    \* concurrency controller
    concurrency_lock,   \* _concurrency_lock: 0 = free, else the holding thread
    global_running,     \* _global_running
    running_jobs,       \* _running_jobs: ip -> count
    \* provision budget
    MAX_PROVISIONS,     \* _MAX_PROVISIONS
    provision_lock,     \* _provision_lock: 0 = free, else the holding thread
    provision_count,    \* _provision_count (active VMs)
    provision_total,    \* _provision_total (lifetime)
    budget_calls,       \* history: outcomes of the budget calls, in lock order
    \* auto-destroy, state file, job store, runner threads
    AUTO_DESTROY_MINS,  \* _AUTO_DESTROY_MINS
    state_file,         \* whether STATE_FILE ("state.json") exists
    jobs,               \* job_store._jobs, in creation order
    runner,             \* job -> the thread running _run_job for it
    auto_destroy_timer, \* _auto_destroy_timer: 0 = None, else a timer
    timers,             \* the threading.Timer objects created so far
    \* WebSocket sessions
    ws,                 \* session -> the websocket_logs coroutine serving it
    \* the calling threads of SpecConc and SpecBudget
    tpc,                \* thread -> position in the function it executes
    tip,                \* thread -> the ip argument of its call
    tret,               \* thread -> outcome of its last check_concurrency call
    \* per-IP token-bucket rate limiter (RateLimitMiddleware)
    RATE_WRITE_RPM,     \* _RATE_WRITE_RPM
    RATE_READ_RPM,      \* _RATE_READ_RPM
    now,                \* time.monotonic(), in seconds
    write_buckets,      \* _write_buckets: ip -> _Bucket, created on first use
    rate_calls,         \* history: <<time, allowed>> of the consume() calls
    read_buckets,       \* _read_buckets: ip -> _Bucket, created on first use
    read_calls,         \* history of the consume() calls on read buckets
    \* API-key guard
    API_KEY_SET,        \* whether _API_KEY is not None
    KEY_MAX_USES,       \* _KEY_MAX_USES
    key_use_lock,       \* _key_use_lock: 0 = free, else the holding thread
    key_use_count,      \* _key_use_count
    \* request threads of SpecApi
    treq                \* thread -> the request it serves

cfgVars == <<MAX_CONCURRENT, MAX_PER_IP, MAX_PROVISIONS, AUTO_DESTROY_MINS>>
sysVars == <<state_file, jobs, runner, auto_destroy_timer, timers>>
wsVars == <<ws>>
concVars == <<concurrency_lock, global_running, running_jobs>>
budgetVars == <<provision_lock, provision_count, provision_total, budget_calls>>
thrVars == <<tpc, tip, tret>>
\* what only the call-level specifications SpecConc and SpecBudget change
callVars == <<concurrency_lock, provision_lock, budget_calls, thrVars>>
rateVars == <<RATE_WRITE_RPM, RATE_READ_RPM, now, write_buckets, rate_calls,
              read_buckets, read_calls>>
keyVars == <<API_KEY_SET, KEY_MAX_USES, key_use_lock, key_use_count>>
reqVars == <<treq>>
\* the guards in front of the handlers and the requests passing them
frontVars == <<rateVars, keyVars, reqVars>>
vars == <<cfgVars, frontVars, concVars, budgetVars, thrVars, sysVars, wsVars>>

\* ---------------------------------------------------- initial values
InitConfig ==
    /\ MAX_CONCURRENT \in ConcurrentLimits
    /\ MAX_PER_IP \in PerIpLimits
    /\ MAX_PROVISIONS \in ProvisionLimits
    /\ AUTO_DESTROY_MINS \in AutoDestroyChoices

InitConcurrency ==
    /\ concurrency_lock = 0
    /\ global_running = 0
    /\ running_jobs = [ip \in IPs |-> 0]

InitBudget ==
    /\ provision_lock = 0
    /\ provision_count = 0
    /\ provision_total = 0
    /\ budget_calls = <<>>

\* no job, no timer, no request yet
InitSystem ==
    /\ jobs = <<>>
    /\ runner = <<>>
    /\ auto_destroy_timer = 0
    /\ timers = <<>>

\* no session connected
InitSessions ==
    ws = [s \in 1..NSessions |->
            [pc |-> "idle", job |-> 0, history_count |-> 0, skipped |-> 0,
             frames |-> <<>>, pings |-> 0, connected |-> TRUE, close_code |-> 0]]

InitThreads ==
    /\ tpc = [t \in Threads |-> "idle"]
    /\ tip = [t \in Threads |-> 1]
    /\ tret = [t \in Threads |-> "none"]

\* the limiter has seen no request; the clock starts at 0
InitRate ==
    /\ RATE_WRITE_RPM \in RateChoices
    /\ RATE_READ_RPM \in RateChoices
    /\ now = 0
    /\ write_buckets = <<>>
    /\ rate_calls = <<>>
    /\ read_buckets = <<>>
    /\ read_calls = <<>>

InitKey ==
    /\ API_KEY_SET \in BOOLEAN
    /\ KEY_MAX_USES \in KeyUseLimits
    /\ key_use_lock = 0
    /\ key_use_count = 0

\* a thread that serves no request
NoRequest == [op |-> "none", key |-> FALSE, job |-> 0, status |-> "none"]

InitRequests ==
    treq = [t \in Threads |-> NoRequest]

\* The specifications that start behind the guards in front of the
\* handlers leave those guards at their defaults, with the API key set.
InitFrontIdle ==
    /\ InitRate /\ InitKey /\ InitRequests
    /\ RATE_WRITE_RPM = 4
    /\ RATE_READ_RPM = 4
    /\ API_KEY_SET = TRUE
    /\ KEY_MAX_USES = 0

\* =====================================================================
\* 3a. Global concurrency + per-IP cap (middleware.py)
\* =====================================================================

\* `with _concurrency_lock:` is entered only while no thread holds the lock.
LockFreeMutant(lock) == TRUE
LockFree(lock) == lock = 0

GlobalBusyMutant == global_running > MAX_CONCURRENT

\* the two bound checks of check_concurrency
GlobalBusy == global_running >= MAX_CONCURRENT
IpBusyMutant(ip) == running_jobs[ip] > MAX_PER_IP
IpBusy(ip) == running_jobs[ip] >= MAX_PER_IP

\* release_concurrency_slot: _global_running = max(0, _global_running - 1)
ReleasedGlobalMutant(g) == g - 1
ReleasedGlobal(g) == Max0(g - 1)

ReleasedIpMutant(rj, ip) == [rj EXCEPT ![ip] = rj[ip] - 1]

\* release_concurrency_slot: if _running_jobs[ip] > 0: _running_jobs[ip] -= 1
ReleasedIp(rj, ip) == IF rj[ip] > 0 THEN [rj EXCEPT ![ip] = rj[ip] - 1] ELSE rj

\* A thread enters check_concurrency(request) for the request's client ip.
CallCheckConcurrency(t, ip) ==
    /\ tpc[t] = "idle"
    /\ tpc' = [tpc EXCEPT ![t] = "cc_lock"]
    /\ tip' = [tip EXCEPT ![t] = ip]
    /\ tret' = [tret EXCEPT ![t] = "none"]
    /\ UNCHANGED <<cfgVars, frontVars, sysVars, wsVars, budgetVars, concVars>>

\* with _concurrency_lock:
CcAcquire(t) ==
    /\ tpc[t] = "cc_lock"
    /\ LockFree(concurrency_lock)
    /\ concurrency_lock' = t
    /\ tpc' = [tpc EXCEPT ![t] = "cc_chk_global"]
    /\ UNCHANGED <<cfgVars, frontVars, sysVars, wsVars, budgetVars, global_running, running_jobs, tip, tret>>

\* if _global_running >= _MAX_CONCURRENT: raise HTTPException(429)
CcGlobalBusy(t) ==
    /\ tpc[t] = "cc_chk_global"
    /\ GlobalBusy
    /\ concurrency_lock' = 0
    /\ tpc' = [tpc EXCEPT ![t] = "idle"]
    /\ tret' = [tret EXCEPT ![t] = "busy"]
    /\ tip' = [tip EXCEPT ![t] = 1]
    /\ UNCHANGED <<cfgVars, frontVars, sysVars, wsVars, budgetVars, global_running, running_jobs>>

CcGlobalFree(t) ==
    /\ tpc[t] = "cc_chk_global"
    /\ ~GlobalBusy
    /\ tpc' = [tpc EXCEPT ![t] = "cc_chk_ip"]
    /\ UNCHANGED <<cfgVars, frontVars, sysVars, wsVars, budgetVars, concVars, tip, tret>>

\* if _running_jobs[ip] >= _MAX_PER_IP: raise HTTPException(429)
CcIpBusy(t) ==
    /\ tpc[t] = "cc_chk_ip"
    /\ IpBusy(tip[t])
    /\ concurrency_lock' = 0
    /\ tpc' = [tpc EXCEPT ![t] = "idle"]
    /\ tret' = [tret EXCEPT ![t] = "busy_ip"]
    /\ tip' = [tip EXCEPT ![t] = 1]
    /\ UNCHANGED <<cfgVars, frontVars, sysVars, wsVars, budgetVars, global_running, running_jobs>>

CcIpFree(t) ==
    /\ tpc[t] = "cc_chk_ip"
    /\ ~IpBusy(tip[t])
    /\ tpc' = [tpc EXCEPT ![t] = "cc_inc_global"]
    /\ UNCHANGED <<cfgVars, frontVars, sysVars, wsVars, budgetVars, concVars, tip, tret>>

\* _global_running += 1
CcIncGlobal(t) ==
    /\ tpc[t] = "cc_inc_global"
    /\ global_running' = global_running + 1
    /\ tpc' = [tpc EXCEPT ![t] = "cc_inc_ip"]
    /\ UNCHANGED <<cfgVars, frontVars, sysVars, wsVars, budgetVars, concurrency_lock, running_jobs, tip, tret>>

\* _running_jobs[ip] += 1, and the with block ends
CcIncIp(t) ==
    /\ tpc[t] = "cc_inc_ip"
    /\ running_jobs' = [running_jobs EXCEPT ![tip[t]] = @ + 1]
    /\ concurrency_lock' = 0
    /\ tpc' = [tpc EXCEPT ![t] = "idle"]
    /\ tret' = [tret EXCEPT ![t] = "ok"]
    /\ tip' = [tip EXCEPT ![t] = 1]
    /\ UNCHANGED <<cfgVars, frontVars, sysVars, wsVars, budgetVars, global_running>>

\* A thread enters release_concurrency_slot(ip).
CallReleaseSlot(t, ip) ==
    /\ tpc[t] = "idle"
    /\ tpc' = [tpc EXCEPT ![t] = "rel_lock"]
    /\ tip' = [tip EXCEPT ![t] = ip]
    /\ tret' = [tret EXCEPT ![t] = "none"]
    /\ UNCHANGED <<cfgVars, frontVars, sysVars, wsVars, budgetVars, concVars>>

RelAcquire(t) ==
    /\ tpc[t] = "rel_lock"
    /\ LockFree(concurrency_lock)
    /\ concurrency_lock' = t
    /\ tpc' = [tpc EXCEPT ![t] = "rel_global"]
    /\ UNCHANGED <<cfgVars, frontVars, sysVars, wsVars, budgetVars, global_running, running_jobs, tip, tret>>

RelGlobal(t) ==
    /\ tpc[t] = "rel_global"
    /\ global_running' = ReleasedGlobal(global_running)
    /\ tpc' = [tpc EXCEPT ![t] = "rel_ip"]
    /\ UNCHANGED <<cfgVars, frontVars, sysVars, wsVars, budgetVars, concurrency_lock, running_jobs, tip, tret>>

RelIp(t) ==
    /\ tpc[t] = "rel_ip"
    /\ running_jobs' = ReleasedIp(running_jobs, tip[t])
    /\ concurrency_lock' = 0
    /\ tpc' = [tpc EXCEPT ![t] = "idle"]
    /\ tip' = [tip EXCEPT ![t] = 1]
    /\ UNCHANGED <<cfgVars, frontVars, sysVars, wsVars, budgetVars, global_running, tret>>

\* SpecConc fixes the configuration it does not read.
InitConc ==
    /\ InitConfig /\ InitConcurrency /\ InitBudget /\ InitThreads
    /\ InitSystem /\ InitSessions
    /\ InitFrontIdle
    /\ MAX_PROVISIONS = 0
    /\ AUTO_DESTROY_MINS = 0
    /\ state_file = FALSE

NextConc ==
    \E t \in Threads :
        \/ \E ip \in IPs : CallCheckConcurrency(t, ip)
        \/ CcAcquire(t)
        \/ CcGlobalBusy(t)
        \/ CcGlobalFree(t)
        \/ CcIpBusy(t)
        \/ CcIpFree(t)
        \/ CcIncGlobal(t)
        \/ CcIncIp(t)
        \/ \E ip \in IPs : CallReleaseSlot(t, ip)
        \/ RelAcquire(t)
        \/ RelGlobal(t)
        \/ RelIp(t)

SpecConc == InitConc /\ [][NextConc]_vars

\* ---------------------------------------------------------------------
\* C1: under every interleaving of check_concurrency and
\* release_concurrency_slot calls the global running count stays within
\* 0 .. MAX_CONCURRENT_JOBS.
C1_GlobalRunningBounded ==
    /\ global_running >= 0
    /\ global_running <= MAX_CONCURRENT

\* the count has reached its maximum and a release is being applied to it
C1_Witness ==
    /\ global_running = MAX_CONCURRENT
    /\ MAX_CONCURRENT = 2
    /\ \E t \in Threads : tpc[t] = "rel_global"
    /\ \E t \in Threads : tpc[t] = "cc_lock"

\* C2: a call that has passed both bound checks is alone past them and
\* still finds a free slot when it increments, so of two concurrent calls
\* racing for the last free slot at most one is admitted; the other one
\* reads the incremented count and is rejected.
C2_LastSlotNotSharedCalls == {t \in Threads : tpc[t] \in {"cc_inc_global", "cc_inc_ip"}}
C2_LastSlotNotShared ==
    /\ Cardinality(C2_LastSlotNotSharedCalls) <= 1
    /\ \A t \in Threads : tpc[t] = "cc_inc_global" => global_running < MAX_CONCURRENT
    /\ \A t \in Threads : tpc[t] = "cc_inc_ip" => global_running <= MAX_CONCURRENT

\* two calls are in flight with one slot left: one holds the last slot,
\* the other has just been rejected as busy
C2_Witness ==
    \E t1, t2 \in Threads :
        /\ t1 # t2
        /\ tpc[t1] = "cc_inc_ip"
        /\ tret[t2] = "busy"
        /\ global_running = MAX_CONCURRENT
\* =====================================================================
\* 3b. Provision budget cap (middleware.py)
\* =====================================================================

\* if _provision_count >= _MAX_PROVISIONS
BudgetFullMutant(count) == count > MAX_PROVISIONS
BudgetFull(count) == count >= MAX_PROVISIONS

\* release_provision_slot: _provision_count = max(0, _provision_count - 1)
ReleasedProvision(count) == Max0(count - 1)

\* calls started so far: the recorded ones and the ones in progress
BudgetCallsStarted ==
    Len(budget_calls)
        + Cardinality({t \in Threads : tpc[t] \in {"pb_lock", "pb_check", "pb_inc_count",
                                                   "pb_inc_total", "pr_lock", "pr_dec"}})

\* check_provision_budget, cap disabled: if _MAX_PROVISIONS == 0: return
PbDisabled(t) ==
    /\ tpc[t] = "idle"
    /\ BudgetCallsStarted < MaxBudgetCalls
    /\ MAX_PROVISIONS = 0
    /\ tret' = [tret EXCEPT ![t] = "ok"]
    /\ budget_calls' = Append(budget_calls, "ok")
    /\ UNCHANGED <<cfgVars, frontVars, sysVars, wsVars, concVars, provision_lock, provision_count, provision_total, tpc, tip>>

\* A thread enters check_provision_budget(request) with the cap enabled.
CallCheckBudget(t) ==
    /\ tpc[t] = "idle"
    /\ BudgetCallsStarted < MaxBudgetCalls
    /\ MAX_PROVISIONS # 0
    /\ tpc' = [tpc EXCEPT ![t] = "pb_lock"]
    /\ tret' = [tret EXCEPT ![t] = "none"]
    /\ UNCHANGED <<cfgVars, frontVars, sysVars, wsVars, concVars, budgetVars, tip>>

\* with _provision_lock:
PbAcquire(t) ==
    /\ tpc[t] = "pb_lock"
    /\ LockFree(provision_lock)
    /\ provision_lock' = t
    /\ tpc' = [tpc EXCEPT ![t] = "pb_check"]
    /\ UNCHANGED <<cfgVars, frontVars, sysVars, wsVars, concVars, provision_count, provision_total, budget_calls, tip, tret>>

\* if _provision_count >= _MAX_PROVISIONS: raise HTTPException(403)
PbFull(t) ==
    /\ tpc[t] = "pb_check"
    /\ BudgetFull(provision_count)
    /\ provision_lock' = 0
    /\ tpc' = [tpc EXCEPT ![t] = "idle"]
    /\ tret' = [tret EXCEPT ![t] = "budget_full"]
    /\ budget_calls' = Append(budget_calls, "rejected")
    /\ UNCHANGED <<cfgVars, frontVars, sysVars, wsVars, concVars, provision_count, provision_total, tip>>

PbNotFull(t) ==
    /\ tpc[t] = "pb_check"
    /\ ~BudgetFull(provision_count)
    /\ tpc' = [tpc EXCEPT ![t] = "pb_inc_count"]
    /\ UNCHANGED <<cfgVars, frontVars, sysVars, wsVars, concVars, budgetVars, tip, tret>>

\* _provision_count += 1
PbIncCount(t) ==
    /\ tpc[t] = "pb_inc_count"
    /\ provision_count' = provision_count + 1
    /\ tpc' = [tpc EXCEPT ![t] = "pb_inc_total"]
    /\ UNCHANGED <<cfgVars, frontVars, sysVars, wsVars, concVars, provision_lock, provision_total, budget_calls, tip, tret>>

\* _provision_total += 1, and the with block ends
PbIncTotal(t) ==
    /\ tpc[t] = "pb_inc_total"
    /\ provision_total' = provision_total + 1
    /\ provision_lock' = 0
    /\ tpc' = [tpc EXCEPT ![t] = "idle"]
    /\ tret' = [tret EXCEPT ![t] = "ok"]
    /\ budget_calls' = Append(budget_calls, "ok")
    /\ UNCHANGED <<cfgVars, frontVars, sysVars, wsVars, concVars, provision_count, tip>>

\* A thread enters release_provision_slot().
CallReleaseProvision(t) ==
    /\ tpc[t] = "idle"
    /\ BudgetCallsStarted < MaxBudgetCalls
    /\ tpc' = [tpc EXCEPT ![t] = "pr_lock"]
    /\ tret' = [tret EXCEPT ![t] = "none"]
    /\ UNCHANGED <<cfgVars, frontVars, sysVars, wsVars, concVars, budgetVars, tip>>

PrAcquire(t) ==
    /\ tpc[t] = "pr_lock"
    /\ LockFree(provision_lock)
    /\ provision_lock' = t
    /\ tpc' = [tpc EXCEPT ![t] = "pr_dec"]
    /\ UNCHANGED <<cfgVars, frontVars, sysVars, wsVars, concVars, provision_count, provision_total, budget_calls, tip, tret>>

PrDec(t) ==
    /\ tpc[t] = "pr_dec"
    /\ provision_count' = ReleasedProvision(provision_count)
    /\ provision_lock' = 0
    /\ tpc' = [tpc EXCEPT ![t] = "idle"]
    /\ budget_calls' = Append(budget_calls, "release")
    /\ UNCHANGED <<cfgVars, frontVars, sysVars, wsVars, concVars, provision_total, tip, tret>>

\* SpecBudget fixes the configuration it does not read.
InitBudgetCalls ==
    /\ InitConfig /\ InitConcurrency /\ InitBudget /\ InitThreads
    /\ InitSystem /\ InitSessions
    /\ InitFrontIdle
    /\ MAX_CONCURRENT = 1
    /\ MAX_PER_IP = 1
    /\ AUTO_DESTROY_MINS = 0
    /\ state_file = FALSE

NextBudget ==
    \E t \in Threads :
        \/ PbDisabled(t)
        \/ CallCheckBudget(t)
        \/ PbAcquire(t)
        \/ PbFull(t)
        \/ PbNotFull(t)
        \/ PbIncCount(t)
        \/ PbIncTotal(t)
        \/ CallReleaseProvision(t)
        \/ PrAcquire(t)
        \/ PrDec(t)

SpecBudget == InitBudgetCalls /\ [][NextBudget]_vars

\* ---------------------------------------------------------------------
\* C6: with cap N = MAX_TOTAL_PROVISIONS > 0 and the counters starting at
\* zero, of the check_provision_budget calls made before any release the
\* first N succeed and every later one is rejected; and when the first
\* release comes with the budget full, the first call after it succeeds
\* and the calls after that one (with no further release) are rejected.
C6_Releases(n) == {i \in 1..n : budget_calls[i] = "release"}
C6_ChecksBefore(i) == Cardinality({k \in 1..(i - 1) : budget_calls[k] # "release"})
C6_OkBefore(i) == Cardinality({k \in 1..(i - 1) : budget_calls[k] = "ok"})
Sentinel == 0
\* the fixed lines the subsystem itself logs, named by the source line of
\* middleware.py / app.py that emits them
MsgTimerCancelled == 350
MsgAutoDestroyTriggered == 395
MsgAutoDestroyComplete == 403
MsgAutoDestroyFailed == 405
MsgAutoDestroyArmed == 412

Terminal == {"succeeded", "failed"}
JobIds == 1..Len(jobs)
TimerIds == 1..Len(timers)

\* Job.__init__
NewJob(operation, caller_ip) ==
    [operation |-> operation, status |-> "pending", log_queue |-> <<>>,
     logs |-> <<>>, error |-> "None", result |-> "None", caller_ip |-> caller_ip]

\* the thread launch_job starts: it has not run yet
NewRunner == [pc |-> "r_start", put |-> 0, emitted |-> 0, ret |-> "None"]

\* _log, first statement: job.logs.append(line)
LogsAppended(js, j, line) == [js EXCEPT ![j].logs = Append(@, line)]
QueuePutMutant(js, j, item) == [js EXCEPT ![j].log_queue = <<item>> \o @]

\* _log, second statement: job.log_queue.put(line); also queue.put(None)
QueuePut(js, j, item) == [js EXCEPT ![j].log_queue = Append(@, item)]

\* check_concurrency as one step (it runs under _concurrency_lock)
ConcurrencyBusy(ip) == GlobalBusy \/ IpBusy(ip)
\* check_provision_budget as one step (it runs under _provision_lock)
BudgetRejects == MAX_PROVISIONS # 0 /\ BudgetFull(provision_count)
BudgetCountAfterCheck == IF MAX_PROVISIONS = 0 THEN provision_count ELSE provision_count + 1
BudgetTotalAfterCheck == IF MAX_PROVISIONS = 0 THEN provision_total ELSE provision_total + 1

\* launch_job: job_store.create, thread.start
Launched(operation, ip) ==
    /\ jobs' = Append(jobs, NewJob(operation, ip))
    /\ runner' = Append(runner, NewRunner)

\* the slot check_concurrency reserves
SlotReserved(ip) ==
    /\ global_running' = global_running + 1
    /\ running_jobs' = [running_jobs EXCEPT ![ip] = @ + 1]

\* ---- POST /provision: check_provision_budget, check_concurrency, body

\* check_provision_budget raises 403
ProvisionBudgetFull(ip) ==
    /\ BudgetRejects
    /\ UNCHANGED <<cfgVars, frontVars, concVars, budgetVars, thrVars, wsVars,
                   state_file, jobs, runner, auto_destroy_timer, timers>>

\* the budget admits, then check_concurrency raises 429
ProvisionBusy(ip) ==
    /\ ~BudgetRejects
    /\ ConcurrencyBusy(ip)
    /\ provision_count' = BudgetCountAfterCheck
    /\ provision_total' = BudgetTotalAfterCheck
    /\ UNCHANGED <<cfgVars, frontVars, concVars, callVars, wsVars,
                   state_file, jobs, runner, auto_destroy_timer, timers>>

\* both guards admit, then get_provider raises ValueError: 400
ProvisionBadProvider(ip) ==
    /\ ~BudgetRejects
    /\ ~ConcurrencyBusy(ip)
    /\ provision_count' = BudgetCountAfterCheck
    /\ provision_total' = BudgetTotalAfterCheck
    /\ SlotReserved(ip)
    /\ UNCHANGED <<cfgVars, frontVars, callVars, wsVars,
                   state_file, jobs, runner, auto_destroy_timer, timers>>

\* both guards admit and the job is launched: 202
ProvisionAccepted(ip, limit) ==
    /\ Len(jobs) < limit
    /\ ~BudgetRejects
    /\ ~ConcurrencyBusy(ip)
    /\ provision_count' = BudgetCountAfterCheck
    /\ provision_total' = BudgetTotalAfterCheck
    /\ SlotReserved(ip)
    /\ Launched("provision", ip)
    /\ UNCHANGED <<cfgVars, frontVars, callVars, wsVars, state_file, auto_destroy_timer, timers>>

\* ---- POST /deploy and POST /destroy: check_concurrency, body

StateOp == {"deploy", "destroy"}

\* check_concurrency raises 429
StateOpBusy(op, ip) ==
    /\ ConcurrencyBusy(ip)
    /\ UNCHANGED <<cfgVars, frontVars, concVars, budgetVars, thrVars, wsVars,
                   state_file, jobs, runner, auto_destroy_timer, timers>>

\* the slot is reserved, then _load_state raises 404
StateOpNoState(op, ip) ==
    /\ ~ConcurrencyBusy(ip)
    /\ ~state_file
    /\ SlotReserved(ip)
    /\ UNCHANGED <<cfgVars, frontVars, budgetVars, callVars, wsVars,
                   state_file, jobs, runner, auto_destroy_timer, timers>>

\* the slot is reserved, the state is loaded, then get_provider raises: 400
StateOpBadProvider(op, ip) ==
    /\ ~ConcurrencyBusy(ip)
    /\ state_file
    /\ SlotReserved(ip)
    /\ UNCHANGED <<cfgVars, frontVars, budgetVars, callVars, wsVars,
                   state_file, jobs, runner, auto_destroy_timer, timers>>

\* the job is launched: 202
StateOpAccepted(op, ip, limit) ==
    /\ Len(jobs) < limit
    /\ ~ConcurrencyBusy(ip)
    /\ state_file
    /\ SlotReserved(ip)
    /\ Launched(op, ip)
    /\ UNCHANGED <<cfgVars, frontVars, budgetVars, callVars, wsVars,
                   state_file, auto_destroy_timer, timers>>

\* ---- _run_job

\* what a runner step leaves alone besides the variables it names
RunnerFrame == <<cfgVars, frontVars, callVars, wsVars>>

\* the first statement of the function the job runs
FirstPc(operation) ==
    CASE operation = "provision" -> "prov_call"
      [] operation = "deploy" -> "dep_call"
      [] operation = "destroy" -> "des_cancel"

\* job.status = JobStatus.RUNNING
StartStatusMutant == "succeeded"
StartStatus == "running"

RunStart(j) ==
    /\ runner[j].pc = "r_start"
    /\ jobs' = [jobs EXCEPT ![j].status = StartStatus]
    /\ runner' = [runner EXCEPT ![j].pc = FirstPc(jobs[j].operation)]
    /\ UNCHANGED <<RunnerFrame, concVars, provision_count, provision_total,
                   state_file, auto_destroy_timer, timers>>

\* the runner is inside p.provision / p.deploy / p.destroy
CallPcs == {"prov_call", "dep_call", "des_call"}

\* the provider calls log(line): job.logs.append(line)
CallLog(j, limit) ==
    /\ runner[j].pc \in CallPcs
    /\ runner[j].put = 0
    /\ runner[j].emitted < limit
    /\ jobs' = LogsAppended(jobs, j, runner[j].emitted + 1)
    /\ runner' = [runner EXCEPT ![j].put = runner[j].emitted + 1,
                                ![j].emitted = runner[j].emitted + 1]
    /\ UNCHANGED <<RunnerFrame, concVars, provision_count, provision_total,
                   state_file, auto_destroy_timer, timers>>

\* job.log_queue.put(line)
LogPut(j) ==
    /\ runner[j].put # 0
    /\ jobs' = QueuePut(jobs, j, runner[j].put)
    /\ runner' = [runner EXCEPT ![j].put = 0]
    /\ UNCHANGED <<RunnerFrame, concVars, provision_count, provision_total,
                   state_file, auto_destroy_timer, timers>>

\* the provider call raises: except Exception as exc: job.error = str(exc)
CallRaise(j) ==
    /\ runner[j].pc \in CallPcs
    /\ runner[j].put = 0
    /\ jobs' = [jobs EXCEPT ![j].error = "msg"]
    /\ runner' = [runner EXCEPT ![j].pc = "r_failed"]
    /\ UNCHANGED <<RunnerFrame, concVars, provision_count, provision_total,
                   state_file, auto_destroy_timer, timers>>

\* state = p.provision(config, log=log) returns; _save_state(state)
ProvSave(j) ==
    /\ runner[j].pc = "prov_call"
    /\ runner[j].put = 0
    /\ state_file' = TRUE
    /\ runner' = [runner EXCEPT ![j].pc = "prov_sched", ![j].ret = "state"]
    /\ UNCHANGED <<RunnerFrame, concVars, provision_count, provision_total,
                   jobs, auto_destroy_timer, timers>>

\* schedule_auto_destroy: if _AUTO_DESTROY_MINS <= 0: return None
SchedDisabled(j) ==
    /\ runner[j].pc = "prov_sched"
    /\ AUTO_DESTROY_MINS <= 0
    /\ runner' = [runner EXCEPT ![j].pc = "r_result"]
    /\ UNCHANGED <<RunnerFrame, concVars, provision_count, provision_total,
                   state_file, jobs, auto_destroy_timer, timers>>

\* threading.Timer(...), log_fn is the job's _log
NewTimer(j) ==
    [job |-> j, pc |-> "armed", put |-> 0, emitted |-> 0,
     outcome |-> "none",     \* history: how _do_destroy ended
     released |-> FALSE]     \* history: _do_destroy called release_provision_slot

\* schedule_auto_destroy: timer.start(); _auto_destroy_timer = timer;
\* log_fn("This VM will be automatically destroyed ...")
SchedArm(j) ==
    /\ runner[j].pc = "prov_sched"
    /\ AUTO_DESTROY_MINS > 0
    /\ timers' = Append(timers, NewTimer(j))
    /\ auto_destroy_timer' = Len(timers) + 1
    /\ jobs' = LogsAppended(jobs, j, MsgAutoDestroyArmed)
    /\ runner' = [runner EXCEPT ![j].pc = "r_result", ![j].put = MsgAutoDestroyArmed]
    /\ UNCHANGED <<RunnerFrame, concVars, provision_count, provision_total, state_file>>

\* p.deploy returns None
DepReturn(j) ==
    /\ runner[j].pc = "dep_call"
    /\ runner[j].put = 0
    /\ runner' = [runner EXCEPT ![j].pc = "r_result", ![j].ret = "None"]
    /\ UNCHANGED <<RunnerFrame, concVars, provision_count, provision_total,
                   state_file, jobs, auto_destroy_timer, timers>>

\* Timer.is_alive(): the thread was started and has not ended
IsAlive(timer) == timer.pc \notin {"cancelled", "finished"}

\* Timer.cancel() stops a timer that has not fired; after it has fired the
\* call changes nothing
Cancelled(ts, k) == IF ts[k].pc = "armed" THEN [ts EXCEPT ![k].pc = "cancelled"] ELSE ts

\* _destroy_and_cleanup: if cancel_auto_destroy(): log("Auto-destroy timer
\* cancelled ...")
DesCancelHit(j) ==
    /\ runner[j].pc = "des_cancel"
    /\ auto_destroy_timer # 0
    /\ IsAlive(timers[auto_destroy_timer])
    /\ timers' = Cancelled(timers, auto_destroy_timer)
    /\ auto_destroy_timer' = 0
    /\ jobs' = LogsAppended(jobs, j, MsgTimerCancelled)
    /\ runner' = [runner EXCEPT ![j].pc = "des_call", ![j].put = MsgTimerCancelled]
    /\ UNCHANGED <<RunnerFrame, concVars, provision_count, provision_total, state_file>>

\* cancel_auto_destroy() returns False
DesCancelMiss(j) ==
    /\ runner[j].pc = "des_cancel"
    /\ ~(auto_destroy_timer # 0 /\ IsAlive(timers[auto_destroy_timer]))
    /\ runner' = [runner EXCEPT ![j].pc = "des_call"]
    /\ UNCHANGED <<RunnerFrame, concVars, provision_count, provision_total,
                   state_file, jobs, auto_destroy_timer, timers>>

\* p.destroy returns; if os.path.exists(STATE_FILE)
DesExists(j) ==
    /\ runner[j].pc = "des_call"
    /\ runner[j].put = 0
    /\ runner' = [runner EXCEPT ![j].pc = IF state_file THEN "des_remove" ELSE "r_result"]
    /\ UNCHANGED <<RunnerFrame, concVars, provision_count, provision_total,
                   state_file, jobs, auto_destroy_timer, timers>>

\* os.remove(STATE_FILE); when the file has gone meanwhile it raises
\* FileNotFoundError: job.error = str(exc)
DesRemove(j) ==
    /\ runner[j].pc = "des_remove"
    /\ state_file' = FALSE
    /\ runner' = [runner EXCEPT ![j].pc = IF state_file THEN "r_result" ELSE "r_failed"]
    /\ jobs' = IF state_file THEN jobs ELSE [jobs EXCEPT ![j].error = "msg"]
    /\ UNCHANGED <<RunnerFrame, concVars, provision_count, provision_total,
                   auto_destroy_timer, timers>>

\* job.result = result
StoreResult(j) ==
    /\ runner[j].pc = "r_result"
    /\ runner[j].put = 0
    /\ jobs' = [jobs EXCEPT ![j].result = runner[j].ret]
    /\ runner' = [runner EXCEPT ![j].pc = "r_succeeded"]
    /\ UNCHANGED <<RunnerFrame, concVars, provision_count, provision_total,
                   state_file, auto_destroy_timer, timers>>

\* job.status = JobStatus.SUCCEEDED
SetSucceeded(j) ==
    /\ runner[j].pc = "r_succeeded"
    /\ jobs' = [jobs EXCEPT ![j].status = "succeeded"]
    /\ runner' = [runner EXCEPT ![j].pc = "r_sentinel"]
    /\ UNCHANGED <<RunnerFrame, concVars, provision_count, provision_total,
                   state_file, auto_destroy_timer, timers>>

\* except Exception as exc: the status the handler assigns
FailedStatusMutant == "succeeded"
FailedStatusRunningMutant == "running"
FailedStatus == "failed"

\* job.status = JobStatus.FAILED
SetFailed(j) ==
    /\ runner[j].pc = "r_failed"
    /\ jobs' = [jobs EXCEPT ![j].status = FailedStatus]
    /\ runner' = [runner EXCEPT ![j].pc = "r_sentinel"]
    /\ UNCHANGED <<RunnerFrame, concVars, provision_count, provision_total,
                   state_file, auto_destroy_timer, timers>>

\* finally: the statement that follows the status assignment
AfterSentinelPcMutant == "done"
AfterSentinelPc == "r_release"

\* finally: job.log_queue.put(None)
PutSentinel(j) ==
    /\ runner[j].pc = "r_sentinel"
    /\ jobs' = QueuePut(jobs, j, Sentinel)
    /\ runner' = [runner EXCEPT ![j].pc = AfterSentinelPc]
    /\ UNCHANGED <<RunnerFrame, concVars, provision_count, provision_total,
                   state_file, auto_destroy_timer, timers>>

\* finally: release_concurrency_slot(job.caller_ip), one step under the lock
ReleaseSlot(j) ==
    /\ runner[j].pc = "r_release"
    /\ global_running' = ReleasedGlobal(global_running)
    /\ running_jobs' = ReleasedIp(running_jobs, jobs[j].caller_ip)
    /\ runner' = [runner EXCEPT ![j] = [NewRunner EXCEPT !.pc = "done"]]
    /\ UNCHANGED <<RunnerFrame, concurrency_lock, provision_count, provision_total,
                   state_file, jobs, auto_destroy_timer, timers>>
\* ---- schedule_auto_destroy._do_destroy, run by the Timer thread

TimerFrame == <<cfgVars, frontVars, callVars, wsVars, concVars, provision_total,
                auto_destroy_timer, runner>>

\* The interval (AUTO_DESTROY_MINUTES * 60 s, at least a minute) elapses:
\* the few statements the arming runner still has to execute are taken to
\* be over by then.
\* log_fn("Auto-destroy triggered ..."): job.logs.append
TimerFire(k) ==
    /\ timers[k].pc = "armed"
    /\ runner[timers[k].job].pc = "done"
    /\ jobs' = LogsAppended(jobs, timers[k].job, MsgAutoDestroyTriggered)
    /\ timers' = [timers EXCEPT ![k].pc = "t_destroy", ![k].put = MsgAutoDestroyTriggered]
    /\ UNCHANGED <<TimerFrame, provision_count, state_file>>

\* the second statement of _log, job.log_queue.put(line); the thread ends
\* after its last line
TimerLogPut(k) ==
    /\ timers[k].put # 0
    /\ jobs' = QueuePut(jobs, timers[k].job, timers[k].put)
    /\ timers' = [timers EXCEPT ![k].put = 0,
                                ![k].emitted = IF timers[k].pc = "t_end" THEN 0 ELSE @,
                                ![k].pc = IF @ = "t_end" THEN "finished" ELSE @]
    /\ UNCHANGED <<TimerFrame, provision_count, state_file>>

\* p.destroy(state, log=log_fn) logs a line
TimerCallLog(k, limit) ==
    /\ timers[k].pc = "t_destroy"
    /\ timers[k].put = 0
    /\ timers[k].emitted < limit
    /\ jobs' = LogsAppended(jobs, timers[k].job, timers[k].emitted + 1)
    /\ timers' = [timers EXCEPT ![k].put = timers[k].emitted + 1,
                                ![k].emitted = timers[k].emitted + 1]
    /\ UNCHANGED <<TimerFrame, provision_count, state_file>>


\* p.destroy raises: except Exception as exc
TimerDestroyRaise(k) ==
    /\ timers[k].pc = "t_destroy"
    /\ timers[k].put = 0
    /\ timers' = [timers EXCEPT ![k].pc = "t_failed"]
    /\ UNCHANGED <<TimerFrame, provision_count, state_file, jobs>>

\* p.destroy returns; if _os.path.exists(state_file)
TimerExists(k) ==
    /\ timers[k].pc = "t_destroy"
    /\ timers[k].put = 0
    /\ timers' = [timers EXCEPT ![k].pc = IF state_file THEN "t_remove" ELSE "t_release"]
    /\ UNCHANGED <<TimerFrame, provision_count, state_file, jobs>>

\* _os.remove(state_file); FileNotFoundError when the file has gone meanwhile
TimerRemove(k) ==
    /\ timers[k].pc = "t_remove"
    /\ state_file' = FALSE
    /\ timers' = [timers EXCEPT ![k].pc = IF state_file THEN "t_release" ELSE "t_failed"]
    /\ UNCHANGED <<TimerFrame, provision_count, jobs>>

\* the statement of the try block that follows the state file's removal
AfterTeardownCountMutant(count) == count
AfterTeardownCount(count) == ReleasedProvision(count)

\* release_provision_slot()
TimerRelease(k) ==
    /\ timers[k].pc = "t_release"
    /\ provision_count' = AfterTeardownCount(provision_count)
    /\ timers' = [timers EXCEPT ![k].pc = "t_complete", ![k].released = TRUE]
    /\ UNCHANGED <<TimerFrame, state_file, jobs>>

\* log_fn("Auto-destroy complete ...")
TimerCompleteLog(k) ==
    /\ timers[k].pc = "t_complete"
    /\ jobs' = LogsAppended(jobs, timers[k].job, MsgAutoDestroyComplete)
    /\ timers' = [timers EXCEPT ![k].pc = "t_end", ![k].put = MsgAutoDestroyComplete,
                                ![k].outcome = "ok"]
    /\ UNCHANGED <<TimerFrame, provision_count, state_file>>

\* what the except branch does to the budget's active count
FailedTeardownCountMutant(count) == ReleasedProvision(count)
FailedTeardownCount(count) == count

\* except Exception as exc: log_fn("Auto-destroy failed: ...")
TimerFailLog(k) ==
    /\ timers[k].pc = "t_failed"
    /\ jobs' = LogsAppended(jobs, timers[k].job, MsgAutoDestroyFailed)
    /\ provision_count' = FailedTeardownCount(provision_count)
    /\ timers' = [timers EXCEPT ![k].pc = "t_end", ![k].put = MsgAutoDestroyFailed,
                                ![k].outcome = "failed"]
    /\ UNCHANGED <<TimerFrame, state_file>>

\* ---- the whole service: requests, runners, timers

\* state.json is a file: it may be there from an earlier run of the server
InitSpec ==
    /\ InitConfig /\ InitConcurrency /\ InitBudget /\ InitThreads
    /\ InitSystem /\ InitSessions
    /\ InitFrontIdle
    /\ state_file \in BOOLEAN
    /\ MAX_PER_IP = 1
    /\ MAX_PROVISIONS \in ProvisionLimits
    /\ AUTO_DESTROY_MINS = 30

Next ==
    \/ \E ip \in IPs :
        \/ ProvisionBudgetFull(ip)
        \/ ProvisionBusy(ip)
        \/ ProvisionBadProvider(ip)
        \/ ProvisionAccepted(ip, MaxJobs)
        \/ \E op \in StateOp :
            \/ StateOpBusy(op, ip)
            \/ StateOpNoState(op, ip)
            \/ StateOpBadProvider(op, ip)
            \/ StateOpAccepted(op, ip, MaxJobs)
    \/ \E j \in JobIds :
        \/ RunStart(j)
        \/ CallLog(j, MaxLines)
        \/ LogPut(j)
        \/ CallRaise(j)
        \/ ProvSave(j)
        \/ SchedArm(j)
        \/ DepReturn(j)
        \/ DesCancelHit(j)
        \/ DesCancelMiss(j)
        \/ DesExists(j)
        \/ DesRemove(j)
        \/ StoreResult(j)
        \/ SetSucceeded(j)
        \/ SetFailed(j)
        \/ PutSentinel(j)
        \/ ReleaseSlot(j)
    \/ \E k \in TimerIds :
        \/ TimerFire(k)
        \/ TimerLogPut(k)
        \/ TimerCallLog(k, MaxLines)
        \/ TimerDestroyRaise(k)
        \/ TimerExists(k)
        \/ TimerRemove(k)
        \/ TimerRelease(k)
        \/ TimerCompleteLog(k)
        \/ TimerFailLog(k)

Spec == InitSpec /\ [][Next]_vars
\* ---------------------------------------------------------------------
\* C3: a job's status changes only along pending -> running,
\* running -> succeeded or running -> failed: never from pending straight
\* to a terminal status, and never again once it is succeeded or failed.
C3_Allowed ==
    {<<"pending", "running">>, <<"running", "succeeded">>, <<"running", "failed">>}
C3_StatusTransitions ==
    [][\A j \in JobIds :
          jobs'[j].status # jobs[j].status =>
              <<jobs[j].status, jobs'[j].status>> \in C3_Allowed]_vars

\* one job has ended succeeded and another failed
C3_Witness ==
    \E j1, j2 \in JobIds :
        /\ jobs[j1].status = "succeeded" /\ runner[j1].pc = "done"
        /\ jobs[j2].status = "failed" /\ runner[j2].pc = "done"

\* ---------------------------------------------------------------------
\* C7: when a manual destroy job completes its teardown (p.destroy has
\* returned and the state file is gone), the budget's active count is one
\* less, clamped at zero, so that the budget admits a provision again.
C7_DestroyTeardownDone(j) ==
    /\ jobs[j].operation = "destroy"
    /\ runner[j].pc \in {"des_call", "des_remove"}
    /\ runner'[j].pc = "r_result"
C7_ManualDestroyReleases ==
    [][\A j \in JobIds :
          C7_DestroyTeardownDone(j) =>
              /\ provision_count' = Max0(provision_count - 1)
              /\ ~BudgetRejects']_vars

\* ---------------------------------------------------------------------
\* C8: when the auto-destroy timer has fired and its teardown has gone
\* through (p.destroy returned, the state file is removed), the timer
\* thread decrements the budget's active count by one, clamped at zero,
\* after which the budget admits a provision; a timer that reports
\* completion has done so.
C8_TeardownDone(k) ==
    /\ timers[k].pc = "t_release"
    /\ timers'[k].pc # "t_release"
C9_Raises(k) == timers[k].pc # "t_failed" /\ timers'[k].pc = "t_failed"
C9_Handles(k) == timers[k].pc = "t_failed" /\ timers'[k].pc # "t_failed"
C9_TimerFailureKeepsBudget ==
    /\ [](\A k \in TimerIds :
            timers[k].outcome = "failed" =>
                /\ ~timers[k].released
                /\ timers[k].pc \in {"t_end", "finished"}
                /\ MsgAutoDestroyFailed \in {jobs[timers[k].job].logs[i] :
                        i \in 1..Len(jobs[timers[k].job].logs)})
    /\ [][\A k \in TimerIds :
            /\ C9_Raises(k) => provision_count' = provision_count
            /\ C9_Handles(k) =>
                  /\ provision_count' = provision_count
                  /\ timers'[k].pc = "t_end"
                  /\ timers'[k].outcome = "failed"
                  /\ jobs'[timers[k].job].logs
                        = Append(jobs[timers[k].job].logs, MsgAutoDestroyFailed)]_vars

\* cap 1: a timer's teardown failed, its thread has ended with the failure
\* on the relay and the reservation is still held
C9_Witness ==
    \E k \in TimerIds :
        /\ timers[k].outcome = "failed"
        /\ timers[k].pc = "finished"
        /\ MAX_PROVISIONS = 1
        /\ provision_count = 1
        /\ \E i \in 1..Len(jobs[timers[k].job].log_queue) :
              jobs[timers[k].job].log_queue[i] = MsgAutoDestroyFailed

\* ---------------------------------------------------------------------
\* C10: for every job, failed or succeeded, the runner puts the
\* end-of-stream marker on the job's queue exactly once and then releases
\* the caller's concurrency slot exactly once: the runner ends only by the
\* release, the release comes only after the marker, and nothing else
\* lowers the running count.
C10_Markers(j) ==
    Cardinality({i \in 1..Len(jobs[j].log_queue) : jobs[j].log_queue[i] = Sentinel})
C10_MarkerThenRelease ==
    /\ [](\A j \in JobIds :
            /\ runner[j].pc \in {"r_release", "done"} =>
                  C10_Markers(j) = 1 /\ jobs[j].status \in Terminal
            /\ runner[j].pc \notin {"r_release", "done"} => C10_Markers(j) = 0)
    /\ [][/\ \A j \in JobIds :
               (runner[j].pc # "done" /\ runner'[j].pc = "done") =>
                   /\ runner[j].pc = "r_release"
                   /\ C10_Markers(j) = 1
                   /\ global_running' = global_running - 1
                   /\ running_jobs' = [running_jobs EXCEPT ![jobs[j].caller_ip] = @ - 1]
          /\ global_running' < global_running =>
               \E j \in JobIds : runner[j].pc = "r_release" /\ runner'[j].pc = "done"]_vars

\* a job whose work raised and a job whose work returned have both ended:
\* one marker each, and every slot is free again
C10_Witness ==
    \E j1, j2 \in JobIds :
        /\ jobs[j1].status = "failed" /\ runner[j1].pc = "done"
        /\ jobs[j2].status = "succeeded" /\ runner[j2].pc = "done"
        /\ C10_Markers(j1) = 1 /\ C10_Markers(j2) = 1
        /\ global_running = 0

\* ---------------------------------------------------------------------
\* C11: whenever a job's status is succeeded or failed, exactly one of its
\* result and its error is set, whatever the operation.
C11_ExactlyOneOfResultError ==
    \A j \in JobIds :
        jobs[j].status \in Terminal =>
            ((jobs[j].result # "None") # (jobs[j].error # "None"))

\* =====================================================================
\* WebSocket log streaming: websocket_logs (app.py)
\* =====================================================================

Sessions == 1..NSessions

\* the close codes: websocket.close(code=4004) and the default of close()
NormalCode == 1000
NotFoundCodeMutant == NormalCode
NotFoundCode == 4004

LogFrame(line) == [type |-> "log", line |-> line, text |-> ""]
TextFrame(type, text) == [type |-> type, line |-> 0, text |-> text]

\* for line in history_snapshot: await send({"type": "log", "data": line})
RECURSIVE Replay(_)
Replay(lines) ==
    IF lines = <<>> THEN <<>> ELSE <<LogFrame(Head(lines))>> \o Replay(Tail(lines))

ClosingFramesMutant(job) ==
    <<TextFrame("done", "")>>
        \o (IF job.result # "None" THEN <<TextFrame("result", job.result)>> ELSE <<>>)
        \o (IF job.error # "None" THEN <<TextFrame("error", job.error)>> ELSE <<>>)


ClosingFramesBothMutant(job) ==
    <<TextFrame("result", job.result), TextFrame("error", job.error), TextFrame("done", "")>>


\* if job.result: send result; if job.error: send error; send done
ClosingFrames(job) ==
    (IF job.result # "None" THEN <<TextFrame("result", job.result)>> ELSE <<>>)
        \o (IF job.error # "None" THEN <<TextFrame("error", job.error)>> ELSE <<>>)
        \o <<TextFrame("done", "")>>

WsFrame == <<cfgVars, frontVars, callVars, concVars, provision_count, provision_total,
             state_file, runner, auto_destroy_timer, timers>>

\* what the snapshot of job.logs holds when the session takes it
HistorySnapshot(job) == job.logs

\* websocket.accept(); job = job_store.get(job_id);
\* history_snapshot = list(job.logs); the replay loop
WsAttach(s, j) ==
    /\ ws[s].pc = "idle"
    /\ ws' = [ws EXCEPT ![s].pc = "status", ![s].job = j,
                        ![s].history_count = Len(HistorySnapshot(jobs[j])),
                        ![s].frames = Replay(HistorySnapshot(jobs[j]))]
    /\ UNCHANGED <<WsFrame, jobs>>

\* await send({"type": "status", "data": job.status.value})
WsSendStatus(s) ==
    /\ ws[s].pc = "status"
    /\ ws' = [ws EXCEPT ![s].pc = "check",
                        ![s].frames = Append(@, TextFrame("status", jobs[ws[s].job].status))]
    /\ UNCHANGED <<WsFrame, jobs>>

\* if job.status in (SUCCEEDED, FAILED): result / error / done, close, return
WsFinishedAtAttach(s) ==
    /\ ws[s].pc = "check"
    /\ jobs[ws[s].job].status \in Terminal
    /\ ws' = [ws EXCEPT ![s].pc = "closed", ![s].close_code = NormalCode,
                        ![s].frames = @ \o ClosingFrames(jobs[ws[s].job])]
    /\ UNCHANGED <<WsFrame, jobs>>

\* the job is not finished: skipped = 0, enter the while loop
WsEnterLoop(s) ==
    /\ ws[s].pc = "check"
    /\ jobs[ws[s].job].status \notin Terminal
    /\ ws' = [ws EXCEPT ![s].pc = "loop"]
    /\ UNCHANGED <<WsFrame, jobs>>

\* job.log_queue.get(timeout=15) returns the head of the queue
QueueHead(s) == Head(jobs[ws[s].job].log_queue)
QueueTaken(s) == [jobs EXCEPT ![ws[s].job].log_queue = Tail(@)]

\* if item is None: break
WsGetSentinel(s) ==
    /\ ws[s].pc = "loop"
    /\ jobs[ws[s].job].log_queue # <<>>
    /\ QueueHead(s) = Sentinel
    /\ jobs' = QueueTaken(s)
    /\ ws' = [ws EXCEPT ![s].pc = "final"]
    /\ UNCHANGED WsFrame

\* if skipped < history_count: skipped += 1; continue
WsGetSkip(s) ==
    /\ ws[s].pc = "loop"
    /\ jobs[ws[s].job].log_queue # <<>>
    /\ QueueHead(s) # Sentinel
    /\ ws[s].skipped < ws[s].history_count
    /\ jobs' = QueueTaken(s)
    /\ ws' = [ws EXCEPT ![s].skipped = @ + 1]
    /\ UNCHANGED WsFrame

\* await send({"type": "log", "data": item})
WsGetSend(s) ==
    /\ ws[s].pc = "loop"
    /\ jobs[ws[s].job].log_queue # <<>>
    /\ QueueHead(s) # Sentinel
    /\ ~(ws[s].skipped < ws[s].history_count)
    /\ jobs' = QueueTaken(s)
    /\ ws' = [ws EXCEPT ![s].frames = Append(@, LogFrame(QueueHead(s)))]
    /\ UNCHANGED WsFrame

\* queue.Empty after the 15 s timeout: send ping, continue
WsPing(s) ==
    /\ ws[s].pc = "loop"
    /\ jobs[ws[s].job].log_queue = <<>>
    /\ ws[s].pings < MaxPings
    /\ ws' = [ws EXCEPT ![s].pings = @ + 1,
                        ![s].frames = Append(@, TextFrame("ping", ""))]
    /\ UNCHANGED <<WsFrame, jobs>>

\* after the loop: status, result / error, done, close
WsFinal(s) ==
    /\ ws[s].pc = "final"
    /\ ws' = [ws EXCEPT ![s].pc = "closed", ![s].close_code = NormalCode,
                        ![s].frames = Append(@, TextFrame("status", jobs[ws[s].job].status))
                                        \o ClosingFrames(jobs[ws[s].job])]
    /\ UNCHANGED <<WsFrame, jobs>>

\* One job: the server was started with the state file of an earlier run,
\* auto-destroy disabled and the default limits.
InitWS ==
    /\ InitConfig /\ InitConcurrency /\ InitBudget /\ InitThreads
    /\ InitSystem /\ InitSessions
    /\ InitFrontIdle
    /\ MAX_CONCURRENT = 1
    /\ MAX_PER_IP = 1
    /\ MAX_PROVISIONS = 0
    /\ AUTO_DESTROY_MINS = 0
    /\ state_file = TRUE

\* the steps of the runner thread of job j in SpecWS
RunnerStepWS(j) ==
    \/ RunStart(j)
    \/ CallLog(j, MaxLinesWS)
    \/ LogPut(j)
    \/ CallRaise(j)
    \/ ProvSave(j)
    \/ SchedDisabled(j)
    \/ DepReturn(j)
    \/ StoreResult(j)
    \/ SetSucceeded(j)
    \/ SetFailed(j)
    \/ PutSentinel(j)
    \/ ReleaseSlot(j)

\* the steps of a connected session
SessionStep(s) ==
    \/ WsSendStatus(s)
    \/ WsFinishedAtAttach(s)
    \/ WsEnterLoop(s)
    \/ WsGetSentinel(s)
    \/ WsGetSkip(s)
    \/ WsGetSend(s)
    \/ WsPing(s)
    \/ WsFinal(s)

NextWS ==
    \/ ProvisionAccepted(1, 1)
    \/ StateOpAccepted("deploy", 1, 1)
    \/ \E j \in JobIds : RunnerStepWS(j)
    \/ \E s \in Sessions : \E j \in JobIds : WsAttach(s, j)
    \/ \E s \in Sessions : SessionStep(s)

SpecWS == InitWS /\ [][NextWS]_vars
\* ---- sessions with an unknown job id, and clients that go away

\* job = job_store.get(job_id) is None: send_text(error), close(code=4004),
\* return; ws[s].job stays 0 (no job)
WsUnknownJob(s) ==
    /\ ws[s].pc = "idle"
    /\ ws' = [ws EXCEPT ![s].pc = "not_found",
                        ![s].frames = <<TextFrame("error", "not found")>>,
                        ![s].close_code = NotFoundCode]
    /\ UNCHANGED <<WsFrame, jobs>>

\* the client of an attached session closes its socket. From then on
\* send() swallows the WebSocketDisconnect of every frame (ws[s].frames are
\* the frames handed to send()); the handler itself goes on as before.
WsDisconnect(s) ==
    /\ ws[s].pc \in {"status", "check", "loop", "final"}
    /\ ws[s].connected
    /\ ws' = [ws EXCEPT ![s].connected = FALSE]
    /\ UNCHANGED <<WsFrame, jobs>>

\* Session 1 may attach at any time and its client may go away; the other
\* sessions attach to a job once the client of session 1 has gone, or ask
\* for a job that does not exist.
NextGone ==
    \/ ProvisionAccepted(1, 1)
    \/ StateOpAccepted("deploy", 1, 1)
    \/ \E j \in JobIds : RunnerStepWS(j)
    \/ \E j \in JobIds : WsAttach(1, j)
    \/ WsDisconnect(1)
    \/ \E s \in Sessions \ {1} : \E j \in JobIds : ~ws[1].connected /\ WsAttach(s, j)
    \/ \E s \in Sessions : WsUnknownJob(s)
    \/ \E s \in Sessions : SessionStep(s)

SpecGone == InitWS /\ [][NextGone]_vars


\* the log frames a session has sent, and the positions of its done frames
LogFrames(s) == SelectSeq(ws[s].frames, LAMBDA f : f.type = "log")
DoneFrames(s) == {i \in 1..Len(ws[s].frames) : ws[s].frames[i].type = "done"}
StatusFrames(s) == SelectSeq(ws[s].frames, LAMBDA f : f.type = "status")

\* ---------------------------------------------------------------------
\* C4: a session that is the only one ever attached to its job has sent,
\* when it closes after done, exactly the job's emitted lines as its log
\* frames: each once, in emission order.
C4_SingleSessionFullLog ==
    \A s \in Sessions :
        (/\ ws[s].pc = "closed"
         /\ \A o \in Sessions \ {s} : ws[o].pc = "idle") =>
            LogFrames(s) = Replay(jobs[ws[s].job].logs)

\* ---------------------------------------------------------------------
\* C5: every session on an existing job sends done exactly once and as its
\* last frame: no frame follows a done, a closed session has sent it, and
\* no session is left in its receive loop on a queue that the finished
\* runner will never write to again without having sent it.
C5_Stranded(s) ==
    /\ ws[s].pc = "loop"
    /\ runner[ws[s].job].pc = "done"
    /\ jobs[ws[s].job].log_queue = <<>>
C5_DoneOnceAndLast ==
    \A s \in Sessions :
        /\ DoneFrames(s) \subseteq {Len(ws[s].frames)}
        /\ ws[s].pc = "closed" => DoneFrames(s) = {Len(ws[s].frames)}
        /\ C5_Stranded(s) => DoneFrames(s) # {}

\* =====================================================================
\* 1. Per-IP token-bucket rate limiter (middleware.py)
\* =====================================================================

\* Token amounts are kept in sixtieths of a token, the unit in which the
\* refill rate RPM / 60 tokens per second is a whole number per second.
TokenScale == 60

Min(a, b) == IF a < b THEN a ELSE b

\* _Bucket(_RATE_WRITE_RPM, _RATE_WRITE_RPM / 60) created at time t:
\* tokens = capacity, last_refill = time.monotonic()
NewBucket(rpm, t) ==
    [tokens |-> rpm * TokenScale, last_refill |-> t,
     capacity |-> rpm * TokenScale, refill_rate |-> rpm]

\* consume(cost = 1.0)
Cost == 1 * TokenScale

\* self.tokens = min(self.capacity, self.tokens + elapsed * self.refill_rate);
\* self.last_refill = now
Refilled(b, t) ==
    [b EXCEPT !.tokens = Min(b.capacity, b.tokens + (t - b.last_refill) * b.refill_rate),
              !.last_refill = t]

\* if self.tokens >= cost
HasTokensMutant(tokens) == tokens > Cost
HasTokens(tokens) == tokens >= Cost

\* the value consume() returns at time t
Allowed(b, t) == HasTokens(Refilled(b, t).tokens)

\* the bucket after consume() at time t: self.tokens -= cost when allowed
ConsumedMutant(b, t) == [Refilled(b, t) EXCEPT !.tokens = @ - Cost]
Consumed(b, t) ==
    IF Allowed(b, t)
    THEN [Refilled(b, t) EXCEPT !.tokens = @ - Cost]
    ELSE Refilled(b, t)

\* self._write_buckets[ip]: the defaultdict creates the bucket on first use
BucketOf(ip) ==
    IF ip \in DOMAIN write_buckets THEN write_buckets[ip]
    ELSE NewBucket(RATE_WRITE_RPM, now)

BucketStored(ip, b) ==
    IF ip \in DOMAIN write_buckets THEN [write_buckets EXCEPT ![ip] = b]
    ELSE write_buckets @@ (ip :> b)

\* dispatch: with self._lock: allowed = self._write_buckets[ip].consume()
Consume(ip) ==
    /\ Len(rate_calls) < MaxRateCalls
    /\ write_buckets' = BucketStored(ip, Consumed(BucketOf(ip), now))
    /\ rate_calls' = Append(rate_calls,
                            [ip |-> ip, time |-> now, allowed |-> Allowed(BucketOf(ip), now)])
    /\ UNCHANGED <<cfgVars, RATE_WRITE_RPM, RATE_READ_RPM, now, read_buckets,
                   read_calls, keyVars, reqVars, concVars,
                   budgetVars, thrVars, sysVars, wsVars>>

\* self._read_buckets[ip]: the defaultdict creates the bucket on first use
ReadBucketOf(ip) ==
    IF ip \in DOMAIN read_buckets THEN read_buckets[ip]
    ELSE NewBucket(RATE_READ_RPM, now)

ReadBucketStored(ip, b) ==
    IF ip \in DOMAIN read_buckets THEN [read_buckets EXCEPT ![ip] = b]
    ELSE read_buckets @@ (ip :> b)

\* dispatch on a path that is not a write path:
\* with self._lock: allowed = self._read_buckets[ip].consume()
ConsumeRead(ip) ==
    /\ Len(read_calls) < MaxReadCalls
    /\ read_buckets' = ReadBucketStored(ip, Consumed(ReadBucketOf(ip), now))
    /\ read_calls' = Append(read_calls,
                            [ip |-> ip, time |-> now,
                             allowed |-> Allowed(ReadBucketOf(ip), now)])
    /\ UNCHANGED <<cfgVars, RATE_WRITE_RPM, RATE_READ_RPM, now, write_buckets,
                   rate_calls, keyVars, reqVars, concVars,
                   budgetVars, thrVars, sysVars, wsVars>>

\* time passes
Elapse(dt) ==
    /\ now + dt <= MaxTime
    /\ now' = now + dt
    /\ UNCHANGED <<cfgVars, RATE_WRITE_RPM, RATE_READ_RPM, write_buckets,
                   rate_calls, read_buckets, read_calls, keyVars,
                   reqVars, concVars, budgetVars, thrVars, sysVars, wsVars>>

\* SpecBucket fixes everything but the limiter.
InitBucket ==
    /\ InitConfig /\ InitConcurrency /\ InitBudget /\ InitThreads
    /\ InitSystem /\ InitSessions
    /\ InitRate /\ InitKey /\ InitRequests
    /\ MAX_CONCURRENT = 1
    /\ MAX_PER_IP = 1
    /\ MAX_PROVISIONS = 0
    /\ AUTO_DESTROY_MINS = 0
    /\ state_file = FALSE
    /\ API_KEY_SET = TRUE
    /\ KEY_MAX_USES = 0

NextBucket ==
    \/ \E ip \in IPs : Consume(ip)
    \/ \E ip \in IPs : ConsumeRead(ip)
    \/ \E dt \in ElapseChoices : Elapse(dt)

SpecBucket == InitBucket /\ [][NextBucket]_vars

\* ---------------------------------------------------------------------
\* C14: a bucket admits a call iff, after adding elapsed * refill_rate
\* tokens capped at capacity, at least one token is there, and then takes
\* exactly one; with capacity 2 and one token per 30 s, three calls at
\* once are admitted, admitted, rejected, and a call 30 s later is
\* admitted.
C14_CallsOf(ip) == SelectSeq(rate_calls, LAMBDA c : c.ip = ip)
\* tokens (in sixtieths) the bucket of ip holds before the call, after the
\* refill the call makes
C14_Available(ip) ==
    IF ip \in DOMAIN write_buckets
    THEN LET b == write_buckets[ip]
             refill == (now - b.last_refill) * RATE_WRITE_RPM
         IN  IF b.tokens + refill > 60 * RATE_WRITE_RPM
             THEN 60 * RATE_WRITE_RPM ELSE b.tokens + refill
    ELSE 60 * RATE_WRITE_RPM
C14_ConsumeStep(ip) ==
    /\ Len(rate_calls') = Len(rate_calls) + 1
    /\ rate_calls'[Len(rate_calls')].ip = ip
C14_TokenBucket ==
    /\ [](\A ip \in IPs :
            LET c == C14_CallsOf(ip) IN
            /\ (RATE_WRITE_RPM = 2 /\ Len(c) >= 3
                  /\ c[2].time = c[1].time /\ c[3].time = c[1].time) =>
                  (c[1].allowed /\ c[2].allowed /\ ~c[3].allowed)
            /\ (RATE_WRITE_RPM = 2 /\ Len(c) >= 4
                  /\ c[2].time = c[1].time /\ c[3].time = c[1].time
                  /\ c[4].time = c[1].time + 30) => c[4].allowed)
    /\ [][\A ip \in IPs :
            C14_ConsumeStep(ip) =>
                /\ rate_calls'[Len(rate_calls')].allowed <=> C14_Available(ip) >= 60
                /\ write_buckets'[ip].tokens =
                      IF C14_Available(ip) >= 60
                      THEN C14_Available(ip) - 60 ELSE C14_Available(ip)
                /\ write_buckets'[ip].last_refill = now]_vars

\* capacity 2: the calls at 0, 0, 0 and 30 s came out admitted, admitted,
\* rejected, admitted
C14_Witness ==
    /\ RATE_WRITE_RPM = 2
    /\ \E ip \in IPs :
          /\ Len(C14_CallsOf(ip)) = 4
          /\ [i \in 1..4 |-> C14_CallsOf(ip)[i].time] = <<0, 0, 0, 30>>
          /\ [i \in 1..4 |-> C14_CallsOf(ip)[i].allowed] = <<TRUE, TRUE, FALSE, TRUE>>

\* =====================================================================
\* 2. API-key guard: require_api_key (middleware.py)
\* =====================================================================

\* what a step of require_api_key leaves alone besides the variables it names
KeyFrame == <<cfgVars, rateVars, API_KEY_SET, KEY_MAX_USES, concVars, budgetVars,
              tip, sysVars, wsVars>>

\* if _key_use_count >= _KEY_MAX_USES
KeyBurnedMutant(count) == count > KEY_MAX_USES
KeyBurned(count) == count >= KEY_MAX_USES

\* A thread enters require_api_key(request, key); valid: key == _API_KEY.
CallRequireKey(t, valid) ==
    /\ tpc[t] = "idle"
    /\ tpc' = [tpc EXCEPT ![t] = "ka_start"]
    /\ tret' = [tret EXCEPT ![t] = "none"]
    /\ treq' = [treq EXCEPT ![t] = [NoRequest EXCEPT !.key = valid]]
    /\ UNCHANGED <<KeyFrame, key_use_lock, key_use_count>>

\* if _API_KEY is None: raise HTTPException(503)
KaNoKey(t) ==
    /\ tpc[t] = "ka_start"
    /\ ~API_KEY_SET
    /\ tpc' = [tpc EXCEPT ![t] = "idle"]
    /\ tret' = [tret EXCEPT ![t] = "503"]
    /\ UNCHANGED <<KeyFrame, key_use_lock, key_use_count, treq>>

\* if key != _API_KEY: raise HTTPException(401)
KaBadKey(t) ==
    /\ tpc[t] = "ka_start"
    /\ API_KEY_SET
    /\ ~treq[t].key
    /\ tpc' = [tpc EXCEPT ![t] = "idle"]
    /\ tret' = [tret EXCEPT ![t] = "401"]
    /\ UNCHANGED <<KeyFrame, key_use_lock, key_use_count, treq>>

\* if _KEY_MAX_USES > 0 is false: the function returns
KaUnlimited(t) ==
    /\ tpc[t] = "ka_start"
    /\ API_KEY_SET
    /\ treq[t].key
    /\ ~(KEY_MAX_USES > 0)
    /\ tpc' = [tpc EXCEPT ![t] = "idle"]
    /\ tret' = [tret EXCEPT ![t] = "ok"]
    /\ UNCHANGED <<KeyFrame, key_use_lock, key_use_count, treq>>

\* if _KEY_MAX_USES > 0: on to `with _key_use_lock`
KaLimited(t) ==
    /\ tpc[t] = "ka_start"
    /\ API_KEY_SET
    /\ treq[t].key
    /\ KEY_MAX_USES > 0
    /\ tpc' = [tpc EXCEPT ![t] = "ka_lock"]
    /\ UNCHANGED <<KeyFrame, key_use_lock, key_use_count, treq, tret>>

KaAcquire(t) ==
    /\ tpc[t] = "ka_lock"
    /\ LockFree(key_use_lock)
    /\ key_use_lock' = t
    /\ tpc' = [tpc EXCEPT ![t] = "ka_check"]
    /\ UNCHANGED <<KeyFrame, key_use_count, treq, tret>>

\* if _key_use_count >= _KEY_MAX_USES: raise HTTPException(403)
KaBurned(t) ==
    /\ tpc[t] = "ka_check"
    /\ KeyBurned(key_use_count)
    /\ key_use_lock' = 0
    /\ tpc' = [tpc EXCEPT ![t] = "idle"]
    /\ tret' = [tret EXCEPT ![t] = "403"]
    /\ UNCHANGED <<KeyFrame, key_use_count, treq>>

KaNotBurned(t) ==
    /\ tpc[t] = "ka_check"
    /\ ~KeyBurned(key_use_count)
    /\ tpc' = [tpc EXCEPT ![t] = "ka_inc"]
    /\ UNCHANGED <<KeyFrame, key_use_lock, key_use_count, treq, tret>>

\* _key_use_count += 1, and the with block ends
KaInc(t) ==
    /\ tpc[t] = "ka_inc"
    /\ key_use_count' = key_use_count + 1
    /\ key_use_lock' = 0
    /\ tpc' = [tpc EXCEPT ![t] = "idle"]
    /\ tret' = [tret EXCEPT ![t] = "ok"]
    /\ UNCHANGED <<KeyFrame, treq>>

\* SpecKey fixes everything but the key guard.
InitKeyCalls ==
    /\ InitConfig /\ InitConcurrency /\ InitBudget /\ InitThreads
    /\ InitSystem /\ InitSessions
    /\ InitRate /\ InitKey /\ InitRequests
    /\ MAX_CONCURRENT = 1
    /\ MAX_PER_IP = 1
    /\ MAX_PROVISIONS = 0
    /\ AUTO_DESTROY_MINS = 0
    /\ state_file = FALSE
    /\ RATE_WRITE_RPM = 4
    /\ RATE_READ_RPM = 4

NextKey ==
    \E t \in Threads :
        \/ \E valid \in BOOLEAN : CallRequireKey(t, valid)
        \/ KaNoKey(t)
        \/ KaBadKey(t)
        \/ KaUnlimited(t)
        \/ KaLimited(t)
        \/ KaAcquire(t)
        \/ KaBurned(t)
        \/ KaNotBurned(t)
        \/ KaInc(t)

SpecKey == InitKeyCalls /\ [][NextKey]_vars

\* ---------------------------------------------------------------------
\* C15: with API_KEY_MAX_USES = N > 0 the key-use counter never exceeds N
\* and never decreases, under any interleaving of require_api_key calls;
\* and once it equals N no call is let through any more, with a valid key
\* or not.
C15_KeyUseBounded ==
    /\ [](KEY_MAX_USES > 0 => key_use_count \in 0..KEY_MAX_USES)
    /\ [][/\ key_use_count' >= key_use_count
          /\ (KEY_MAX_USES > 0 /\ key_use_count = KEY_MAX_USES) =>
                \A t \in Threads : tret'[t] = "ok" => tret[t] = "ok"]_vars

\* N = 2: the key is used up, a call with the valid key was answered 403
\* and a call with a wrong key 401
C15_Witness ==
    /\ KEY_MAX_USES = 2
    /\ key_use_count = 2
    /\ \E t1, t2 \in Threads :
          /\ tret[t1] = "403" /\ treq[t1].key
          /\ tret[t2] = "401" /\ ~treq[t2].key

\* =====================================================================
\* A mutating request from the middleware to the 202 response (app.py)
\* =====================================================================
\* Each request thread takes a request through RateLimitMiddleware.dispatch,
\* the dependencies of the route (require_api_key, check_provision_budget
\* for /provision, check_concurrency) and the handler body, which calls
\* launch_job and builds the response from the job. Each guard runs under
\* its own lock and is one step here. The requests name a known provider,
\* and state.json exists.

ApiFrame == <<cfgVars, RATE_WRITE_RPM, RATE_READ_RPM, now, rate_calls,
              read_buckets, read_calls, API_KEY_SET, KEY_MAX_USES,
              key_use_lock, concurrency_lock, provision_lock, budget_calls,
              wsVars, state_file, auto_destroy_timer, timers>>

ApiOps == {"provision", "deploy"}

\* the requests being served
InFlight == {t \in Threads : tpc[t] # "idle"}

\* a request arrives: dispatch(request, call_next)
ApiRequest(t, ip, op, valid) ==
    /\ tpc[t] = "idle"
    /\ Len(jobs) + Cardinality(InFlight) < MaxJobs
    /\ tpc' = [tpc EXCEPT ![t] = "rq_limit"]
    /\ tip' = [tip EXCEPT ![t] = ip]
    /\ tret' = [tret EXCEPT ![t] = "none"]
    /\ treq' = [treq EXCEPT ![t] = [NoRequest EXCEPT !.op = op, !.key = valid]]
    /\ UNCHANGED <<ApiFrame, write_buckets, key_use_count, global_running,
                   running_jobs, provision_count, provision_total, jobs, runner>>

\* a guard raises HTTPException / dispatch returns the 429 response: the
\* request is over
AfterRejectPcMutant == "rq_body"
AfterRejectPc == "idle"

\* the thread keeps the response and the caller it went to
Rejected(t, code) ==
    /\ tpc' = [tpc EXCEPT ![t] = AfterRejectPc]
    /\ tret' = [tret EXCEPT ![t] = code]
    /\ tip' = tip
    /\ treq' = [treq EXCEPT ![t] = NoRequest]

\* dispatch: the bucket of the caller's ip has no token: 429
ApiRateLimited(t) ==
    /\ tpc[t] = "rq_limit"
    /\ ~Allowed(BucketOf(tip[t]), now)
    /\ write_buckets' = BucketStored(tip[t], Consumed(BucketOf(tip[t]), now))
    /\ Rejected(t, "rate_limited")
    /\ UNCHANGED <<ApiFrame, key_use_count, global_running, running_jobs,
                   provision_count, provision_total, jobs, runner>>

\* dispatch: return await call_next(request)
ApiRatePassed(t) ==
    /\ tpc[t] = "rq_limit"
    /\ Allowed(BucketOf(tip[t]), now)
    /\ write_buckets' = BucketStored(tip[t], Consumed(BucketOf(tip[t]), now))
    /\ tpc' = [tpc EXCEPT ![t] = "rq_auth"]
    /\ UNCHANGED <<ApiFrame, key_use_count, global_running, running_jobs,
                   provision_count, provision_total, jobs, runner, tip, tret, treq>>

\* require_api_key as one step: the status it raises, or "ok"
KeyVerdict(valid) ==
    IF ~API_KEY_SET THEN "no_key"
    ELSE IF ~valid THEN "bad_key"
    ELSE IF KEY_MAX_USES > 0 /\ KeyBurned(key_use_count) THEN "key_burned"
    ELSE "ok"

\* require_api_key raises 503, 401 or 403
ApiKeyRejected(t) ==
    /\ tpc[t] = "rq_auth"
    /\ KeyVerdict(treq[t].key) # "ok"
    /\ Rejected(t, KeyVerdict(treq[t].key))
    /\ UNCHANGED <<ApiFrame, write_buckets, key_use_count, global_running,
                   running_jobs, provision_count, provision_total, jobs, runner>>

\* the dependency that follows require_api_key: /provision goes on to
\* check_provision_budget, /deploy to check_concurrency
AfterKeyPcMutant(op) == "rq_conc"
AfterKeyPc(op) == IF op = "provision" THEN "rq_budget" ELSE "rq_conc"

\* require_api_key returns
ApiKeyPassed(t) ==
    /\ tpc[t] = "rq_auth"
    /\ KeyVerdict(treq[t].key) = "ok"
    /\ key_use_count' = IF KEY_MAX_USES > 0 THEN key_use_count + 1 ELSE key_use_count
    /\ tpc' = [tpc EXCEPT ![t] = AfterKeyPc(treq[t].op)]
    /\ UNCHANGED <<ApiFrame, write_buckets, global_running, running_jobs,
                   provision_count, provision_total, jobs, runner, tip, tret, treq>>

\* check_provision_budget raises 403
ApiBudgetFull(t) ==
    /\ tpc[t] = "rq_budget"
    /\ BudgetRejects
    /\ Rejected(t, "budget_full")
    /\ UNCHANGED <<ApiFrame, write_buckets, key_use_count, global_running,
                   running_jobs, provision_count, provision_total, jobs, runner>>

\* check_provision_budget returns
ApiBudgetPassed(t) ==
    /\ tpc[t] = "rq_budget"
    /\ ~BudgetRejects
    /\ provision_count' = BudgetCountAfterCheck
    /\ provision_total' = BudgetTotalAfterCheck
    /\ tpc' = [tpc EXCEPT ![t] = "rq_conc"]
    /\ UNCHANGED <<ApiFrame, write_buckets, key_use_count, global_running,
                   running_jobs, jobs, runner, tip, tret, treq>>

\* check_concurrency raises 429
ApiBusy(t) ==
    /\ tpc[t] = "rq_conc"
    /\ ConcurrencyBusy(tip[t])
    /\ Rejected(t, IF GlobalBusy THEN "busy" ELSE "busy_ip")
    /\ UNCHANGED <<ApiFrame, write_buckets, key_use_count, global_running,
                   running_jobs, provision_count, provision_total, jobs, runner>>

\* check_concurrency reserves the slot and returns
ApiSlotReserved(t) ==
    /\ tpc[t] = "rq_conc"
    /\ ~ConcurrencyBusy(tip[t])
    /\ SlotReserved(tip[t])
    /\ tpc' = [tpc EXCEPT ![t] = "rq_body"]
    /\ UNCHANGED <<ApiFrame, write_buckets, key_use_count, provision_count,
                   provision_total, jobs, runner, tip, tret, treq>>

\* the handler body: job = launch_job(operation, fn, caller_ip = ip);
\* launch_job has created the job and started its thread
ApiLaunch(t) ==
    /\ tpc[t] = "rq_body"
    /\ Launched(treq[t].op, tip[t])
    /\ treq' = [treq EXCEPT ![t].job = Len(jobs) + 1]
    /\ tpc' = [tpc EXCEPT ![t] = "rq_return"]
    /\ UNCHANGED <<ApiFrame, write_buckets, key_use_count, global_running,
                   running_jobs, provision_count, provision_total, tip, tret>>

\* launch_job returns the job; return _job_response(job) reads job.status
ApiReturn(t) ==
    /\ tpc[t] = "rq_return"
    /\ treq' = [treq EXCEPT ![t] = [NoRequest EXCEPT !.job = treq[t].job,
                                              !.status = jobs[treq[t].job].status]]
    /\ tpc' = [tpc EXCEPT ![t] = "idle"]
    /\ tret' = [tret EXCEPT ![t] = "accepted"]
    /\ tip' = [tip EXCEPT ![t] = 1]
    /\ UNCHANGED <<ApiFrame, write_buckets, key_use_count, global_running,
                   running_jobs, provision_count, provision_total, jobs, runner>>

\* the steps of the runner thread of job j in SpecApi
RunnerStepApi(j) ==
    \/ RunStart(j)
    \/ CallLog(j, MaxLines)
    \/ LogPut(j)
    \/ CallRaise(j)
    \/ ProvSave(j)
    \/ SchedDisabled(j)
    \/ DepReturn(j)
    \/ StoreResult(j)
    \/ SetSucceeded(j)
    \/ SetFailed(j)
    \/ PutSentinel(j)
    \/ ReleaseSlot(j)

\* auto-destroy is disabled; one job at a time, one VM
InitApi ==
    /\ InitConfig /\ InitConcurrency /\ InitBudget /\ InitThreads
    /\ InitSystem /\ InitSessions
    /\ InitRate /\ InitKey /\ InitRequests
    /\ MAX_CONCURRENT = 1
    /\ MAX_PER_IP = 1
    /\ MAX_PROVISIONS = 1
    /\ AUTO_DESTROY_MINS = 0
    /\ state_file = TRUE
    /\ RATE_WRITE_RPM = 2
    /\ RATE_READ_RPM = 2
    /\ KEY_MAX_USES \in {0, 1}

NextApi ==
    \/ \E t \in Threads :
        \/ \E ip \in IPs : \E op \in ApiOps : \E valid \in BOOLEAN :
              ApiRequest(t, ip, op, valid)
        \/ ApiRateLimited(t)
        \/ ApiRatePassed(t)
        \/ ApiKeyRejected(t)
        \/ ApiKeyPassed(t)
        \/ ApiBudgetFull(t)
        \/ ApiBudgetPassed(t)
        \/ ApiBusy(t)
        \/ ApiSlotReserved(t)
        \/ ApiLaunch(t)
        \/ ApiReturn(t)
    \/ \E j \in JobIds : RunnerStepApi(j)

SpecApi == InitApi /\ [][NextApi]_vars

\* ---------------------------------------------------------------------
\* C17: when the work function raises, the runner stores the message of
\* the failure in the job's error, then sets the status to failed, and goes
\* on through its finally block to its end: a failed job has its error set
\* and no result, and a runner that has ended left its job terminal.
C17_RaiseStep(j) ==
    (runner[j].pc # "r_failed" /\ runner'[j].pc = "r_failed") =>
        /\ jobs'[j].error # "None"
        /\ jobs'[j].status = "running"

C17_FailStep(j) ==
    (runner[j].pc = "r_failed" /\ runner'[j] # runner[j]) =>
        /\ jobs'[j].status = "failed"
        /\ jobs'[j].error = jobs[j].error
        /\ runner'[j].pc = "r_sentinel"

C17_FailureContained ==
    /\ [](\A j \in JobIds :
            /\ jobs[j].status = "failed" =>
                    jobs[j].error # "None" /\ jobs[j].result = "None"
            /\ jobs[j].error # "None" =>
                    jobs[j].status = "failed" \/ runner[j].pc = "r_failed"
            /\ runner[j].pc = "done" => jobs[j].status \in Terminal)
    /\ [][\A j \in JobIds : C17_RaiseStep(j) /\ C17_FailStep(j)]_vars

\* a job whose work raised: failed, with the message, its runner ended
C17_Witness ==
    \E j \in JobIds :
        /\ jobs[j].status = "failed"
        /\ jobs[j].error = "msg"
        /\ runner[j].pc = "done"


\* ---------------------------------------------------------------------
\* C18: cancel_auto_destroy returns true (the destroy job then logs that
\* the timer was cancelled) iff a timer is armed and has not yet fired; with
\* no timer, or with a timer that has fired, it returns false.
C18_CancelStep(j) ==
    (runner[j].pc = "des_cancel" /\ runner'[j].pc = "des_call") =>
        ((runner'[j].put = MsgTimerCancelled) <=>
            (auto_destroy_timer # 0 /\ timers[auto_destroy_timer].pc = "armed"))

C18_CancelTrueIffNotFired ==
    [][\A j \in JobIds : C18_CancelStep(j)]_vars


\* ---------------------------------------------------------------------
\* C19: with a provision budget in force, whatever provision jobs it
\* admits, at most one auto-destroy timer is armed and waiting to fire.
C19_Armed == {k \in TimerIds : timers[k].pc = "armed"}

C19_AtMostOneArmed ==
    MAX_PROVISIONS > 0 => Cardinality(C19_Armed) <= 1


\* ---------------------------------------------------------------------
\* C20: a session that attaches after its job is terminal sends one log
\* frame per stored line in emission order, then one status frame with the
\* terminal status, then the result frame (succeeded with a result) or the
\* error frame (failed), then done, and closes.
C20_LogPart(job) == [i \in 1..Len(job.logs) |-> [type |-> "log", line |-> job.logs[i], text |-> ""]]

C20_StatusPart(job) == <<[type |-> "status", line |-> 0, text |-> job.status]>>

C20_EndPart(job) ==
    (IF job.status = "succeeded" /\ job.result # "None"
        THEN <<[type |-> "result", line |-> 0, text |-> job.result]>> ELSE <<>>)
    \o (IF job.status = "failed"
        THEN <<[type |-> "error", line |-> 0, text |-> job.error]>> ELSE <<>>)
    \o <<[type |-> "done", line |-> 0, text |-> ""]>>

C20_AttachStep(s) ==
    (ws[s].pc = "idle" /\ ws'[s].pc # "idle" /\ jobs[ws'[s].job].status \in Terminal) =>
        /\ ws'[s].pc = "status"
        /\ ws'[s].frames = C20_LogPart(jobs[ws'[s].job])

C20_StatusStep(s) ==
    (/\ ws[s].pc = "status" /\ ws'[s] # ws[s]
     /\ jobs[ws[s].job].status \in Terminal
     /\ ws[s].frames = C20_LogPart(jobs[ws[s].job])) =>
        /\ ws'[s].pc = "check"
        /\ ws'[s].frames = C20_LogPart(jobs[ws[s].job]) \o C20_StatusPart(jobs[ws[s].job])

C20_CloseStep(s) ==
    (/\ ws[s].pc = "check" /\ ws'[s] # ws[s]
     /\ jobs[ws[s].job].status \in Terminal
     /\ ws[s].frames = C20_LogPart(jobs[ws[s].job]) \o C20_StatusPart(jobs[ws[s].job])) =>
        /\ ws'[s].pc = "closed"
        /\ ws'[s].frames = C20_LogPart(jobs[ws[s].job]) \o C20_StatusPart(jobs[ws[s].job])
                                \o C20_EndPart(jobs[ws[s].job])

C20_LateJoinFrames ==
    [][\A s \in Sessions : C20_AttachStep(s) /\ C20_StatusStep(s) /\ C20_CloseStep(s)]_vars

\* the job emitted three lines and succeeded with a result; a session that
\* found all three in its snapshot and took nothing from the queue is closed
\* after log 1, log 2, log 3, status succeeded, result, done
C20_Witness ==
    \E s \in Sessions :
        /\ ws[s].pc = "closed"
        /\ ws[s].history_count = 3 /\ ws[s].skipped = 0
        /\ \A o \in Sessions \ {s} : ws[o].pc = "idle"
        /\ jobs[ws[s].job].status = "succeeded"
        /\ jobs[ws[s].job].result # "None"
        /\ Len(ws[s].frames) = 6
        /\ ws[s].frames = C20_LogPart(jobs[ws[s].job]) \o C20_StatusPart(jobs[ws[s].job])
                            \o C20_EndPart(jobs[ws[s].job])


\* ---------------------------------------------------------------------
\* C21: for an unknown job identity the session sends exactly one error
\* frame and closes with code 4004; it sends no done, log or status frame;
\* and only such a session is closed with that code.
C21_UnknownStep(s) ==
    (ws[s].pc = "idle" /\ ws'[s].pc # "idle" /\ ws'[s].job \notin JobIds) =>
        /\ Len(ws'[s].frames) = 1
        /\ ws'[s].frames[1].type = "error"
        /\ ws'[s].close_code = 4004

C21_UnknownJobError ==
    /\ [](\A s \in Sessions :
            /\ ws[s].job \notin JobIds /\ ws[s].pc # "idle" =>
                    /\ Len(ws[s].frames) = 1
                    /\ ws[s].frames[1].type = "error"
                    /\ ws[s].close_code = 4004
            /\ ws[s].job \in JobIds => ws[s].close_code # 4004)
    /\ [][\A s \in Sessions :
            /\ C21_UnknownStep(s)
            /\ ws[s].close_code = 4004 => ws'[s] = ws[s]]_vars

\* one session was refused for an unknown id while another one streams a job
C21_Witness ==
    \E s, o \in Sessions :
        /\ ws[s].pc = "not_found" /\ ws[s].close_code = 4004
        /\ ws[s].frames = <<[type |-> "error", line |-> 0, text |-> "not found"]>>
        /\ ws[o].pc = "loop" /\ ws[o].job \in JobIds


\* ---------------------------------------------------------------------
\* C22: after the client of session 1 has gone away mid-stream, a session
\* that attaches to the same job and streams it to the end (status at
\* attach, status again after the loop) has sent every emitted line exactly
\* once, in order, and done as its last frame.
C22_LaterSessionFullLog ==
    \A s \in Sessions \ {1} :
        (ws[s].pc = "closed" /\ ~ws[1].connected /\ Len(StatusFrames(s)) = 2) =>
            /\ LogFrames(s) = [i \in 1..Len(jobs[ws[s].job].logs) |->
                                  [type |-> "log", line |-> jobs[ws[s].job].logs[i], text |-> ""]]
            /\ ws[s].frames[Len(ws[s].frames)].type = "done"


\* ---------------------------------------------------------------------
\* C23: when two sessions stream the same running job at the same time
\* (both found it unfinished and entered the loop), then once the runner
\* has ended and the queue is empty each of them has sent every emitted
\* line exactly once and in order.
C23_Streaming(s) ==
    \/ ws[s].pc \in {"loop", "final"}
    \/ ws[s].pc = "closed" /\ Len(StatusFrames(s)) = 2

C23_EachSessionFullLog ==
    \A s, o \in Sessions :
        (/\ s # o /\ ws[s].job = ws[o].job
         /\ C23_Streaming(s) /\ C23_Streaming(o)
         /\ runner[ws[s].job].pc = "done"
         /\ jobs[ws[s].job].log_queue = <<>>) =>
            LogFrames(s) = [i \in 1..Len(jobs[ws[s].job].logs) |->
                               [type |-> "log", line |-> jobs[ws[s].job].logs[i], text |-> ""]]


\* ---------------------------------------------------------------------
\* C24: a session whose status frame at attach reported the job as not yet
\* terminal has sent, when it closes, exactly one more status frame, which
\* carries the terminal status.
C24_TwoStatusFrames ==
    \A s \in Sessions :
        (/\ ws[s].pc = "closed"
         /\ StatusFrames(s) # <<>>
         /\ StatusFrames(s)[1].text \notin Terminal) =>
            /\ Len(StatusFrames(s)) = 2
            /\ StatusFrames(s)[2].text = jobs[ws[s].job].status
            /\ StatusFrames(s)[2].text \in Terminal


\* ---------------------------------------------------------------------
\* C25: a session on a job that ended failed sends exactly one error frame
\* and no result frame; on a job that ended succeeded no error frame and at
\* most one result frame (one iff the job has a result); and no session
\* sends either frame before its job is terminal.
C25_Count(s, type) == Cardinality({i \in 1..Len(ws[s].frames) : ws[s].frames[i].type = type})

C26_Quiet ==
    /\ \A j \in JobIds : runner[j].pc = "done"
    /\ \A k \in TimerIds : timers[k].pc \in {"armed", "cancelled", "finished"}

C26_Provisioned ==
    Cardinality({j \in JobIds : jobs[j].operation = "provision" /\ jobs[j].status = "succeeded"})

C26_TornDown ==
    Cardinality({j \in JobIds : jobs[j].operation = "destroy" /\ jobs[j].status = "succeeded"})
        + Cardinality({k \in TimerIds : timers[k].outcome = "ok"})

C26_ActiveCountIsProvisioned ==
    (MAX_PROVISIONS > 0 /\ C26_Quiet) => provision_count = C26_Provisioned - C26_TornDown


\* ---------------------------------------------------------------------
\* C27: the end-of-stream marker is put on a job's queue exactly once over
\* the job's lifetime (by the step that leaves r_sentinel, and by no other
\* step of any thread), and the job's status is already succeeded or failed
\* when it is put.
C27_MarkerPut(j) ==
    /\ Len(jobs'[j].log_queue) = Len(jobs[j].log_queue) + 1
    /\ jobs'[j].log_queue[Len(jobs'[j].log_queue)] = Sentinel

C27_MarkersPut(j) ==
    IF runner[j].pc \in {"r_release", "done"} THEN 1 ELSE 0

C27_MarkerOnceAfterStatus ==
    /\ [](\A j \in JobIds :
            Cardinality({i \in 1..Len(jobs[j].log_queue) : jobs[j].log_queue[i] = Sentinel})
                = C27_MarkersPut(j))
    /\ [][\A j \in JobIds :
            /\ C27_MarkerPut(j) =>
                    /\ jobs[j].status \in Terminal
                    /\ jobs'[j].status = jobs[j].status
                    /\ runner[j].pc = "r_sentinel" /\ runner'[j].pc = "r_release"
            /\ (runner[j].pc = "r_sentinel" /\ runner'[j].pc # "r_sentinel") => C27_MarkerPut(j)]_vars

\* a job has logged, ended and put its marker behind the line
C27_Witness ==
    \E j \in JobIds :
        /\ runner[j].pc = "done"
        /\ Len(jobs[j].log_queue) = 2
        /\ jobs[j].log_queue[2] = Sentinel
        /\ jobs[j].status \in Terminal


\* ---------------------------------------------------------------------
\* C28: in every state, which is what a reader running beside the runner
\* can see, a job that is pending or running has its result and its error
\* unset, and a job's error is set only when its status is failed.
C28_UnsetUntilTerminal ==
    \A j \in JobIds :
        /\ jobs[j].status \in {"pending", "running"} =>
                jobs[j].result = "None" /\ jobs[j].error = "None"
        /\ jobs[j].error # "None" => jobs[j].status = "failed"


\* ---------------------------------------------------------------------
\* C29: for every job, the lines put on its queue so far (nothing takes
\* from the queue in this specification; the marker is left out) are a
\* prefix of its stored log, in the same order, at most the one line behind
\* that the hook is in the middle of emitting - for the calls of the hook by
\* the runner and by the auto-destroy timer alike.
C29_Relay(j) == SelectSeq(jobs[j].log_queue, LAMBDA x : x # Sentinel)

C30_Testing(t) == tpc[t] \in {"cc_chk_global", "cc_chk_ip"}

C30_Counts == <<global_running, running_jobs>>

C30_Step(t) ==
    /\ C30_Testing(t) => concurrency_lock = t /\ C30_Counts' = C30_Counts
    /\ (C30_Testing(t) /\ tpc'[t] = "idle") =>
            /\ tret'[t] \in {"busy", "busy_ip"}
            /\ global_running >= MAX_CONCURRENT \/ running_jobs[tip[t]] >= MAX_PER_IP
    /\ (C30_Testing(t) /\ tpc'[t] = "cc_inc_global") =>
            global_running < MAX_CONCURRENT /\ running_jobs[tip[t]] < MAX_PER_IP
    /\ tpc[t] = "cc_inc_global" =>
            /\ concurrency_lock = t
            /\ tpc'[t] \in {"cc_inc_global", "cc_inc_ip"}
            /\ tpc'[t] = "cc_inc_global" => C30_Counts' = C30_Counts
            /\ tpc'[t] = "cc_inc_ip" =>
                    global_running' = global_running + 1 /\ running_jobs' = running_jobs
    /\ tpc[t] = "cc_inc_ip" =>
            /\ concurrency_lock = t
            /\ tpc'[t] \in {"cc_inc_ip", "idle"}
            /\ tpc'[t] = "cc_inc_ip" => C30_Counts' = C30_Counts
            /\ tpc'[t] = "idle" =>
                    /\ tret'[t] = "ok"
                    /\ global_running' = global_running
                    /\ running_jobs' = [running_jobs EXCEPT ![tip[t]] = running_jobs[tip[t]] + 1]

C30_CheckFrameEffect ==
    [][\A t \in Threads : C30_Step(t)]_vars

\* one call was rejected and one admitted: the counts are those of the
\* admitted call alone
C30_Witness ==
    \E t1, t2 \in Threads :
        /\ tret[t1] \in {"busy", "busy_ip"} /\ tpc[t1] = "idle"
        /\ tret[t2] = "ok" /\ tpc[t2] = "idle"
        /\ global_running = 1
        /\ \E ip \in IPs : running_jobs = [i \in IPs |-> IF i = ip THEN 1 ELSE 0]


\* ---------------------------------------------------------------------
\* C12: when launch_job returns the job to its caller, the status the
\* caller reads from it is pending or running.
C12_ReturnedPendingOrRunning ==
    \A t \in Threads :
        tret[t] = "accepted" => treq[t].status \in {"pending", "running"}

\* ---------------------------------------------------------------------
\* C13: with MAX_CONCURRENT_JOBS = 1, of the requests that reach
\* check_concurrency exactly one at a time is admitted: a request is
\* admitted iff no admitted request or job still holds the slot (the job of
\* an admitted request holds it until its runner has released it), and is
\* rejected as busy otherwise, whoever the callers are; once the runner of
\* the admitted job has finished the next request is admitted.
C13_Holders ==
    Cardinality({t \in Threads : tpc[t] = "rq_body"})
        + Cardinality({j \in JobIds : runner[j].pc # "done"})

C13_CheckStep(t) ==
    (tpc[t] = "rq_conc" /\ tpc'[t] # "rq_conc") =>
        IF C13_Holders = 0
        THEN tpc'[t] = "rq_body" /\ tret'[t] = "none"
        ELSE tpc'[t] = "idle" /\ tret'[t] = "busy"

C13_OneAtATime ==
    /\ [](MAX_CONCURRENT = 1 => C13_Holders <= 1 /\ global_running = C13_Holders)
    /\ [][MAX_CONCURRENT = 1 => \A t \in Threads : C13_CheckStep(t)]_vars

\* job 1 was admitted, a request of another caller was rejected as busy,
\* and after job 1's runner finished the request of job 2 was admitted
C13_Witness ==
    /\ MAX_CONCURRENT = 1
    /\ Len(jobs) = 2
    /\ runner[1].pc = "done"
    /\ \E t1, t2 \in Threads :
          /\ tret[t1] = "busy" /\ tip[t1] # jobs[1].caller_ip
          /\ tret[t2] = "accepted" /\ treq[t2].job = 2

\* ---------------------------------------------------------------------
\* C16: a request rejected by an admission guard (rate limiter, API key or
\* key usage, budget, concurrency) is over at the rejection: it owns no job,
\* and the step that rejects it leaves the job store and the runner threads
\* as they were; a job is created only by the body of a request that has
\* passed every guard.
C16_RejectCodes ==
    {"rate_limited", "no_key", "bad_key", "key_burned", "budget_full", "busy", "busy_ip"}

C16_RejectStep(t) ==
    (tret[t] = "none" /\ tret'[t] \in C16_RejectCodes) =>
        /\ jobs' = jobs
        /\ runner' = runner
        /\ tpc'[t] = "idle"

C16_RejectedCreatesNoJob ==
    /\ [](\A t \in Threads :
            tret[t] \in C16_RejectCodes => tpc[t] = "idle" /\ treq[t].job = 0)
    /\ [][\A t \in Threads : C16_RejectStep(t)]_vars
    /\ [][Len(jobs') > Len(jobs) =>
            \E t \in Threads :
                /\ tpc[t] = "rq_body" /\ tret[t] = "none"
                /\ treq'[t].job = Len(jobs')]_vars

\* requests were rejected by two different guards while a job is running,
\* and the store holds that one job
C16_Witness ==
    /\ Len(jobs) = 1
    /\ runner[1].pc # "done"
    /\ \E t1, t2 \in Threads :
          /\ tret[t1] \in {"rate_limited", "bad_key", "key_burned", "budget_full"}
          /\ tret[t2] = "busy"

\* ---------------------------------------------------------------------
\* C31: every per-caller running count stays within 0 .. MAX_JOBS_PER_IP,
\* and the writes of release_concurrency_slot leave a count that is already
\* zero at zero: the global count and the caller's count alike.
C31_ReleaseStep(t) ==
    /\ (tpc[t] = "rel_global" /\ tpc'[t] = "rel_ip" /\ global_running = 0) =>
            global_running' = 0
    /\ (tpc[t] = "rel_ip" /\ tpc'[t] = "idle" /\ running_jobs[tip[t]] = 0) =>
            running_jobs' = running_jobs

C31_PerIpBounded ==
    /\ [](\A ip \in IPs : running_jobs[ip] >= 0 /\ running_jobs[ip] <= MAX_PER_IP)
    /\ [][\A t \in Threads : C31_ReleaseStep(t)]_vars

\* a release is about to write the count of a caller who holds no slot,
\* with the global count at zero too
C31_Witness ==
    \E t \in Threads :
        /\ tpc[t] = "rel_ip"
        /\ running_jobs[tip[t]] = 0
        /\ global_running = 0

\* ---------------------------------------------------------------------
\* C32: a consume() that is rejected takes no token: the bucket then holds
\* the refilled amount min(capacity, tokens + elapsed * rate), stamped
\* with the time of the call, and the rejection, in a read bucket or in a
\* write bucket, leaves every other bucket of both dictionaries as it was.
C32_Refill(buckets, rpm, ip) ==
    IF ip \in DOMAIN buckets
    THEN LET sum == buckets[ip].tokens + (now - buckets[ip].last_refill) * rpm
         IN  IF sum > 60 * rpm THEN 60 * rpm ELSE sum
    ELSE 60 * rpm
C32_OthersKept(before, after, ip) ==
    /\ DOMAIN after = DOMAIN before \cup {ip}
    /\ \A o \in DOMAIN before : o # ip => after[o] = before[o]
C32_Rejected(calls, calls2) ==
    /\ Len(calls2) = Len(calls) + 1
    /\ ~calls2[Len(calls2)].allowed
C32_WriteStep ==
    C32_Rejected(rate_calls, rate_calls') =>
        LET ip == rate_calls'[Len(rate_calls')].ip IN
        /\ write_buckets'[ip].tokens = C32_Refill(write_buckets, RATE_WRITE_RPM, ip)
        /\ write_buckets'[ip].last_refill = now
        /\ C32_OthersKept(write_buckets, write_buckets', ip)
        /\ read_buckets' = read_buckets
C32_ReadStep ==
    C32_Rejected(read_calls, read_calls') =>
        LET ip == read_calls'[Len(read_calls')].ip IN
        /\ read_buckets'[ip].tokens = C32_Refill(read_buckets, RATE_READ_RPM, ip)
        /\ read_buckets'[ip].last_refill = now
        /\ C32_OthersKept(read_buckets, read_buckets', ip)
        /\ write_buckets' = write_buckets
C32_RejectionTakesNothing == [][C32_WriteStep /\ C32_ReadStep]_vars

\* a read call rejected 15 s after the bucket was emptied leaves the half
\* token the refill brought, a write call of the same caller was rejected
\* too, and another caller has a bucket in each dictionary
C32_Witness ==
    \E ip \in IPs : \E o \in IPs \ {ip} :
        /\ read_calls # <<>> /\ rate_calls # <<>>
        /\ read_calls[Len(read_calls)] = [ip |-> ip, time |-> 15, allowed |-> FALSE]
        /\ rate_calls[Len(rate_calls)].ip = ip
        /\ ~rate_calls[Len(rate_calls)].allowed
        /\ ip \in DOMAIN read_buckets /\ read_buckets[ip].tokens = 30
        /\ read_buckets[ip].last_refill = 15
        /\ o \in DOMAIN read_buckets /\ o \in DOMAIN write_buckets

\* ---------------------------------------------------------------------
\* C33: the guards run in the order rate limiter, API key, budget (for
\* /provision), concurrency, and a request at one guard, passing it or
\* rejected by it, changes nothing a later guard keeps: the limiter's step
\* leaves the key-use, budget and concurrency counters alone, the key
\* guard's step the budget and concurrency counters, the budget guard's
\* step the concurrency counters, and a rejection ends the request there.
C33_KeyKept == key_use_count' = key_use_count
C33_BudgetKept == provision_count' = provision_count /\ provision_total' = provision_total
C33_ConcKept == global_running' = global_running /\ running_jobs' = running_jobs
C33_GuardStep(t) ==
    /\ (tpc[t] = "rq_limit" /\ tpc'[t] # "rq_limit") =>
            /\ C33_KeyKept /\ C33_BudgetKept /\ C33_ConcKept
            /\ IF tret'[t] = "rate_limited" THEN tpc'[t] = "idle"
               ELSE tpc'[t] = "rq_auth" /\ tret'[t] = "none"
    /\ (tpc[t] = "rq_auth" /\ tpc'[t] # "rq_auth") =>
            /\ C33_BudgetKept /\ C33_ConcKept
            /\ IF tret'[t] \in {"no_key", "bad_key", "key_burned"}
               THEN tpc'[t] = "idle" /\ C33_KeyKept
               ELSE /\ tret'[t] = "none"
                    /\ tpc'[t] = IF treq[t].op = "provision" THEN "rq_budget"
                                 ELSE "rq_conc"
    /\ (tpc[t] = "rq_budget" /\ tpc'[t] # "rq_budget") =>
            /\ C33_KeyKept /\ C33_ConcKept
            /\ IF tret'[t] = "budget_full" THEN tpc'[t] = "idle" /\ C33_BudgetKept
               ELSE tpc'[t] = "rq_conc" /\ tret'[t] = "none"
C33_EarlierRejectionKeepsLater == [][\A t \in Threads : C33_GuardStep(t)]_vars

\* with one VM paid for and its job still running, a /provision request
\* was refused by the budget guard and another request by the limiter,
\* and the only slot held is the running job's
C33_Witness ==
    /\ Len(jobs) = 1 /\ runner[1].pc # "done"
    /\ provision_count = 1 /\ provision_total = 1 /\ global_running = 1
    /\ \E t1, t2 \in Threads :
          /\ tret[t1] = "budget_full" /\ tret[t2] = "rate_limited"
          /\ tpc[t1] = "idle" /\ tpc[t2] = "idle"

\* ---------------------------------------------------------------------
\* C34: the lifetime total counts the admitted check_provision_budget
\* calls: it never decreases, release_provision_slot leaves it alone, and
\* every call that was admitted has raised it (and the active count) by
\* one, so it equals the number of calls admitted so far.
C34_Admitted == Cardinality({i \in 1..Len(budget_calls) : budget_calls[i] = "ok"})
C34_TotalCountsAdmitted == provision_total = C34_Admitted

\* ---------------------------------------------------------------------
\* C35: whenever a session attaches to a launched job, every status frame
\* it sends carries running, succeeded or failed.
C35_StatusValues == {"running", "succeeded", "failed"}
C35_StatusFrameValues ==
    \A s \in Sessions :
        \A i \in 1..Len(StatusFrames(s)) : StatusFrames(s)[i].text \in C35_StatusValues

\* ---------------------------------------------------------------------
\* C36: every slot check_concurrency reserved is given back, also when the
\* handler fails between the admission and launch_job: once no request is
\* being served and every launched job's thread has ended, the global
\* running count and every caller's running count are zero.
C36_NoJobRunning == \A j \in JobIds : runner[j].pc = "done"
C36_SlotsReturned ==
    C36_NoJobRunning =>
        /\ global_running = 0
        /\ \A ip \in IPs : running_jobs[ip] = 0

\* ---------------------------------------------------------------------
\* C37: whenever no call holds the concurrency lock, the global running
\* count equals the sum of the per-caller running counts, whatever calls
\* of check_concurrency and release_concurrency_slot were made.
RECURSIVE C37_Sum(_)
C37_Sum(S) ==
    IF S = {} THEN 0
    ELSE LET ip == CHOOSE x \in S : TRUE IN running_jobs[ip] + C37_Sum(S \ {ip})
C37_GlobalIsSum ==
    LockFree(concurrency_lock) => global_running = C37_Sum(IPs)

\* ---------------------------------------------------------------------
\* C38: the end-of-stream marker is the last item ever put on a job's
\* queue (nothing takes from the queue in this specification): no line of
\* the runner or of the auto-destroy timer follows it.
C38_MarkerIsLast ==
    \A j \in JobIds :
        \A i \in 1..Len(jobs[j].log_queue) :
            jobs[j].log_queue[i] = Sentinel => i = Len(jobs[j].log_queue)

\* ---------------------------------------------------------------------
\* C39: a /provision request that check_concurrency rejects leaves the
\* budget as it was before the request. No request of this specification
\* fails after its admission and nothing releases the budget here, so
\* with no request being served the active count and the lifetime total
\* are the number of provision jobs launched; in particular both are zero
\* as long as no provision job was launched.
C39_ProvisionJobs == {j \in JobIds : jobs[j].operation = "provision"}
C39_BusyKeepsBudget ==
    InFlight = {} =>
        /\ provision_count = Cardinality(C39_ProvisionJobs)
        /\ provision_total = Cardinality(C39_ProvisionJobs)

\* ---------------------------------------------------------------------
\* C40: the timer's teardown and a manual destroy's teardown never run for
\* the same resource: a timer the destroy job cancelled stays cancelled,
\* and while _do_destroy is between its first statement and its last no
\* destroy job is in its own provider call or state-file removal.
C40_TimerTeardown == {k \in TimerIds : timers[k].pc \in {"t_destroy", "t_remove", "t_release"}}
C40_ManualTeardown ==
    {j \in JobIds : jobs[j].operation = "destroy" /\ runner[j].pc \in {"des_call", "des_remove"}}
C40_OneTeardownAtATime ==
    C40_TimerTeardown = {} \/ C40_ManualTeardown = {}
====
